---------------------------- MODULE Spec2Model ----------------------------
(***************************************************************************)
(* Investment Register: the cost-basis ledger (src/src/database.py), the   *)
(* market price refresh and the portfolio overview (src/src/portfolio.py), *)
(* the concentration / liquidity and IRR routines                          *)
(* (src/src/calculations.py), the risk register                            *)
(* (src/pages/5_Risk_Register.py), the FX rate lookup                      *)
(* (src/src/market_data.py) and the fund import                            *)
(* (src/src/migrate_spreadsheet.py).                                       *)
(*                                                                         *)
(* Numbers.  The program computes with Python floats.  The model computes  *)
(* with exact rationals <<n, d>> (d > 0, lowest terms), so an equality of  *)
(* the model is the program's equality up to floating-point rounding.      *)
(* None (a NULL column, a missing return value) is the empty tuple.        *)
(***************************************************************************)
EXTENDS Integers, Sequences, FiniteSets, TLC

VARIABLES
    investments,    \* the investments table: id -> row
    transactions,   \* the transactions table, in storage (rowid) order
    now,            \* the clock read by datetime.now()
    holdings,       \* argument list of a direct call of a calculations routine
    risks,          \* the risks table: id -> row
    fx_cache,       \* the market data provider's cache entry of a currency pair
    commitments,    \* the commitments table: investment id -> row
    valuations,     \* the valuations table, in storage (rowid) order
    session_state,  \* st.session_state of the risk register page
    last            \* the last call made and the value it returned

vars == <<investments, transactions, now, holdings, risks, fx_cache, commitments,
          valuations, session_state, last>>

None == <<>>

-----------------------------------------------------------------------------
(* Float arithmetic, as exact rationals                                     *)

Abs(i) == IF i < 0 THEN -i ELSE i

RECURSIVE GCD(_, _)
GCD(a, b) == IF b = 0 THEN a ELSE GCD(b, a % b)

Rat(n, d) ==
    LET g == GCD(Abs(n), Abs(d))
        s == IF d < 0 THEN -1 ELSE 1
    IN  <<(s * n) \div g, (s * d) \div g>>

R(i) == <<i, 1>>
Zero == R(0)

RAdd(a, b) == Rat(a[1] * b[2] + b[1] * a[2], a[2] * b[2])
RSub(a, b) == Rat(a[1] * b[2] - b[1] * a[2], a[2] * b[2])
RMul(a, b) == Rat(a[1] * b[1], a[2] * b[2])
RDiv(a, b) == Rat(a[1] * b[2], a[2] * b[1])
RLt(a, b) == a[1] * b[2] < b[1] * a[2]
RLe(a, b) == a[1] * b[2] <= b[1] * a[2]

-----------------------------------------------------------------------------
(* Bounds and input sets                                                    *)

MaxTx == 2

InvIds == {1, 2}
Dates == {1, 2}
TxTypes == {"Buy", "Sell"}
TxQuantities == {R(50), R(100)}
TxAmounts == {R(600), R(1000)}

-----------------------------------------------------------------------------
(* Cost-basis ledger: update_investment_position                            *)

AcquireTypes == {"Buy", "Capital Call", "Transfer In"}
DisposeTypes == {"Sell", "Capital Return", "Transfer Out"}

\* order_by(Transaction.date): rows of one investment in ascending date
\* order; rows of equal date stay in storage order.
RECURSIVE InsertByDate(_, _)
InsertByDate(sorted, tx) ==
    IF sorted = <<>> THEN <<tx>>
    ELSE IF sorted[Len(sorted)].date <= tx.date THEN Append(sorted, tx)
    ELSE Append(InsertByDate(SubSeq(sorted, 1, Len(sorted) - 1), tx),
                sorted[Len(sorted)])

RECURSIVE OrderByDate(_)
OrderByDate(rows) ==
    IF rows = <<>> THEN <<>>
    ELSE InsertByDate(OrderByDate(SubSeq(rows, 1, Len(rows) - 1)), rows[Len(rows)])

TransactionsOf(table, investment_id) ==
    OrderByDate(SelectSeq(table, LAMBDA tx : tx.investment_id = investment_id))

\* The reduction of cost_basis by a disposal of tx_quantity units.
SoldCost_SaleProceeds(quantity, cost_basis, tx) == tx.total_amount

SoldCost(quantity, cost_basis, tx) ==
    RMul(RDiv(cost_basis, quantity), tx.quantity)

\* One iteration of the loop over the transactions.
ApplyTransaction(acc, tx) ==
    IF tx.transaction_type \in AcquireTypes
    THEN [quantity |-> RAdd(acc.quantity, tx.quantity),
          cost_basis |-> RAdd(acc.cost_basis, tx.total_amount)]
    ELSE IF tx.transaction_type \in DisposeTypes
    THEN [quantity |-> RSub(acc.quantity, tx.quantity),
          cost_basis |-> IF RLt(Zero, acc.quantity)
                         THEN RSub(acc.cost_basis,
                                   SoldCost(acc.quantity, acc.cost_basis, tx))
                         ELSE acc.cost_basis]
    ELSE acc

RECURSIVE ReplayFrom(_, _)
ReplayFrom(acc, txs) ==
    IF txs = <<>> THEN acc
    ELSE ReplayFrom(ApplyTransaction(acc, Head(txs)), Tail(txs))

\* The accumulators the replay starts from.
LedgerStart_Incremental(inv) ==
    [quantity |-> inv.quantity, cost_basis |-> inv.cost_basis]

LedgerStart(inv) == [quantity |-> Zero, cost_basis |-> Zero]

CostPerUnit_NonZero(cost_basis, quantity) ==
    IF quantity # Zero THEN RDiv(cost_basis, quantity) ELSE Zero

CostPerUnit(cost_basis, quantity) ==
    IF RLt(Zero, quantity) THEN RDiv(cost_basis, quantity) ELSE Zero

FirstBuyDate(txs, old) ==
    LET buys == SelectSeq(txs, LAMBDA tx : tx.transaction_type \in AcquireTypes)
    IN  IF buys # <<>> THEN buys[1].date ELSE old

\* The investments table after update_investment_position(investment_id).
PositionUpdated(table, rows, investment_id) ==
    IF investment_id \notin DOMAIN table THEN table
    ELSE LET inv == table[investment_id]
             txs == TransactionsOf(rows, investment_id)
             end == ReplayFrom(LedgerStart(inv), txs)
         IN  [table EXCEPT ![investment_id] =
                [inv EXCEPT !.quantity = end.quantity,
                            !.cost_basis = end.cost_basis,
                            !.cost_per_unit = CostPerUnit(end.cost_basis, end.quantity),
                            !.purchase_date = FirstBuyDate(txs, inv.purchase_date)]]

-----------------------------------------------------------------------------
(* The database after init_db and an import of two positions               *)

NewInvestment(name, asset_class, entity, currency, quantity, cost_basis) ==
    [name |-> name, asset_class |-> asset_class, entity |-> entity, currency |-> currency,
     has_symbol |-> TRUE, is_active |-> TRUE,
     quantity |-> quantity, cost_basis |-> cost_basis,
     cost_per_unit |-> CostPerUnit(cost_basis, quantity),
     current_price |-> Zero, current_value |-> cost_basis,
     last_price_update |-> 0, last_nav |-> None, last_nav_date |-> 0,
     purchase_date |-> 0]

NoCall == [op |-> "none"]

\* Investment 1 is entered with an empty position, investment 2 with a directly
\* entered quantity and cost basis (import_investments, the Holdings form).
InitLedger ==
    /\ investments =
            (1 :> NewInvestment("A", "Public Equities", "HoldCo", "CAD", R(0), R(0)))
         @@ (2 :> NewInvestment("B", "Public Equities", "Personal", "CAD", R(10), R(100)))
    /\ transactions = <<>>
    /\ now = 1
    /\ holdings = <<>>
    /\ risks = <<>>
    /\ fx_cache = None
    /\ commitments = <<>>
    /\ valuations = <<>>
    /\ session_state = <<>>
    /\ last = NoCall

AddTransaction(investment_id, type, date, quantity, total_amount) ==
    /\ Len(transactions) < MaxTx
    /\ LET tx == [investment_id |-> investment_id, transaction_type |-> type,
                  date |-> date, quantity |-> quantity,
                  total_amount |-> total_amount]
       IN  /\ transactions' = Append(transactions, tx)
           /\ investments' = PositionUpdated(investments, transactions', investment_id)
    /\ last' = [op |-> "add_transaction", id |-> investment_id]
    /\ UNCHANGED <<now, holdings, risks, fx_cache, commitments, valuations, session_state>>

UpdateInvestmentPosition(investment_id) ==
    /\ investments' = PositionUpdated(investments, transactions, investment_id)
    /\ last' = [op |-> "update_investment_position", id |-> investment_id]
    /\ UNCHANGED <<transactions, now, holdings, risks, fx_cache, commitments, valuations, session_state>>

NextLedger ==
    \/ \E id \in InvIds, type \in TxTypes, date \in Dates,
          quantity \in TxQuantities, total_amount \in TxAmounts :
            AddTransaction(id, type, date, quantity, total_amount)
    \/ \E id \in InvIds, date \in Dates :
            AddTransaction(id, "Dividend", date, R(0), R(600))
    \/ \E id \in InvIds \cup {3} : UpdateInvestmentPosition(id)

SpecLedger == InitLedger /\ [][NextLedger]_vars

-----------------------------------------------------------------------------
(* Market price refresh: update_market_prices                               *)

MaxRefresh == 2

IlliquidClasses == {"Private Business", "Venture Fund", "Venture Entity", "Real Estate"}

\* What the quote fetch of one position does: it returns None, it raises, or
\* it returns a quote with a price and the currency of that price.
NoQuote == [kind |-> "none"]
FetchRaises == [kind |-> "raise"]
Quote(price, currency) == [kind |-> "quote", price |-> price, currency |-> currency]

FetchOutcomes == {NoQuote, FetchRaises, Quote(R(2), "USD"), Quote(R(2), "CAD")}
UsdCadRates == {Rat(27, 20), Rat(5, 4)}

\* A quote is fetched for these positions only.
QuoteFetched(inv) ==
    \/ inv.asset_class = "Public Equities" /\ inv.has_symbol
    \/ inv.asset_class = "Crypto" /\ inv.has_symbol
    \/ inv.asset_class = "Gold"

\* The price of a quote in the currency of the investment.
ConvertedPrice(quote, currency, usd_cad) ==
    IF quote.currency # currency
    THEN IF quote.currency = "USD" /\ currency = "CAD" THEN RMul(quote.price, usd_cad)
         ELSE IF quote.currency = "CAD" /\ currency = "USD" THEN RDiv(quote.price, usd_cad)
         ELSE quote.price
    ELSE quote.price

\* The branch taken by a position without a usable quote.
FallsBackToNav_Always(inv) == TRUE

FallsBackToNav(inv) == inv.asset_class \in IlliquidClasses

\* One iteration of the loop over the active investments: the row afterwards,
\* the increment of `updated` and whether an error message was appended.
ProcessPosition(inv, outcome, usd_cad, clock) ==
    LET price_data == IF QuoteFetched(inv) THEN outcome ELSE NoQuote
    IN  IF price_data.kind = "raise"
        THEN [inv |-> inv, updated |-> 0, error |-> TRUE]
        ELSE IF price_data.kind = "quote" /\ price_data.price # Zero
        THEN LET price == ConvertedPrice(price_data, inv.currency, usd_cad)
             IN  [inv |-> [inv EXCEPT !.current_price = price,
                                      !.current_value = RMul(price, inv.quantity),
                                      !.last_price_update = clock],
                  updated |-> 1, error |-> FALSE]
        ELSE IF FallsBackToNav(inv)
        THEN IF inv.last_nav # None /\ inv.last_nav # Zero
             THEN [inv |-> [inv EXCEPT !.current_value = inv.last_nav,
                                       !.current_price =
                                            IF RLt(Zero, inv.quantity)
                                            THEN RDiv(inv.last_nav, inv.quantity)
                                            ELSE inv.last_nav],
                   updated |-> 0, error |-> FALSE]
             ELSE [inv |-> [inv EXCEPT !.current_value = inv.cost_basis,
                                       !.current_price = inv.cost_per_unit],
                   updated |-> 0, error |-> FALSE]
        ELSE [inv |-> inv, updated |-> 0, error |-> FALSE]

\* get_all_investments(session, active_only=True), in id order.
RECURSIVE ActiveIds(_, _)
ActiveIds(table, n) ==
    IF n = 0 THEN <<>>
    ELSE IF n \in DOMAIN table /\ table[n].is_active
         THEN Append(ActiveIds(table, n - 1), n)
         ELSE ActiveIds(table, n - 1)

AllInvestments_WithExited(table) == [k \in 1..Cardinality(DOMAIN table) |-> k]

AllInvestments(table) == ActiveIds(table, Cardinality(DOMAIN table))

RECURSIVE SumOver(_, _)
SumOver(f, ids) ==
    IF ids = <<>> THEN 0 ELSE f[Head(ids)] + SumOver(f, Tail(ids))

\* The positions whose quote was fetched and failed: None or an exception.
FailedQuotes(table, quotes) ==
    {id \in DOMAIN table :
        /\ table[id].is_active
        /\ QuoteFetched(table[id])
        /\ quotes[id].kind \in {"none", "raise"}}

UpdateMarketPrices(usd_cad, quotes) ==
    /\ now <= MaxRefresh
    /\ LET ids == AllInvestments(investments)
           done == [id \in InvIds |->
                      ProcessPosition(investments[id], quotes[id], usd_cad, now)]
       IN  /\ investments' =
                [id \in InvIds |->
                    IF investments[id].is_active THEN done[id].inv
                    ELSE investments[id]]
           /\ last' = [op |-> "update_market_prices",
                       failed |-> FailedQuotes(investments, quotes),
                       updated |-> SumOver([id \in InvIds |-> done[id].updated], ids),
                       total |-> Len(ids),
                       errors |-> [k \in 1..Len(SelectSeq(ids, LAMBDA id : done[id].error)) |->
                                    investments[SelectSeq(ids, LAMBDA id : done[id].error)[k]].name],
                       usd_cad_rate |-> usd_cad]
    /\ now' = now + 1
    /\ UNCHANGED <<transactions, holdings, risks, fx_cache, commitments, valuations, session_state>>

\* The database of the price refresh: two positions entered with 10 units at
\* a cost of 100; the second is a public equity in USD or a venture fund, and
\* is active or exited.
Init ==
    /\ \E class2 \in {"Public Equities", "Venture Fund"}, active2 \in BOOLEAN :
         investments =
            (1 :> NewInvestment("A", "Public Equities", "HoldCo", "CAD", R(10), R(100)))
         @@ (2 :> [NewInvestment("B", class2, "Personal", "USD", R(10), R(100))
                        EXCEPT !.is_active = active2])
    /\ transactions = <<>>
    /\ now = 1
    /\ holdings = <<>>
    /\ risks = <<>>
    /\ fx_cache = None
    /\ commitments = <<>>
    /\ valuations = <<>>
    /\ session_state = <<>>
    /\ last = NoCall

Next ==
    \/ \E usd_cad \in UsdCadRates, quotes \in [InvIds -> FetchOutcomes] :
            UpdateMarketPrices(usd_cad, quotes)
    \/ \E id \in InvIds, type \in {"Buy", "Sell"} :
            AddTransaction(id, type, 1, R(50), R(600))

Spec == Init /\ [][Next]_vars

-----------------------------------------------------------------------------
(* Concentration and liquidity: calculations.py                             *)

MaxHoldings == 3

\* dict.get(key, default)
DictGet(h, key, default) == IF key \in DOMAIN h THEN h[key] ELSE default

RECURSIVE RSum(_)
RSum(xs) == IF xs = <<>> THEN Zero ELSE RAdd(Head(xs), RSum(Tail(xs)))

\* total_value = sum(h.get('value', 0) for h in holdings)
TotalValue_DropsLast(hs) ==
    RSum([k \in 1..(Len(hs) - 1) |-> DictGet(hs[k], "value", Zero)])

TotalValue(hs) == RSum([k \in 1..Len(hs) |-> DictGet(hs[k], "value", Zero)])

ConcentrationRisk(hs, threshold_pct) ==
    LET total_value == TotalValue(hs)
    IN  IF total_value = Zero
        THEN [concentrated_positions |-> <<>>, hhi |-> Zero]
        ELSE LET value(k) == DictGet(hs[k], "value", Zero)
                 weight(k) == RMul(RDiv(value(k), total_value), R(100))
                 square(k) == RMul(RDiv(weight(k), R(100)), RDiv(weight(k), R(100)))
                 flagged == SelectSeq([k \in 1..Len(hs) |-> k],
                                      LAMBDA k : RLe(threshold_pct, weight(k)))
                 concentrated ==
                    [i \in 1..Len(flagged) |->
                        [name |-> DictGet(hs[flagged[i]], "name", "Unknown"),
                         value |-> value(flagged[i]),
                         weight |-> weight(flagged[i]),
                         asset_class |-> DictGet(hs[flagged[i]], "asset_class", "Unknown")]]
                 hhi == RMul(RSum([k \in 1..Len(hs) |-> square(k)]), R(10000))
             IN  [concentrated_positions |-> concentrated,
                  hhi |-> hhi,
                  is_concentrated |-> RLt(R(2500), hhi) \/ Len(concentrated) > 0,
                  threshold_used |-> threshold_pct]

\* illiquid_value = total_value - liquid_value
IlliquidValue_Total(total_value, liquid_value) == total_value

IlliquidValue(total_value, liquid_value) == RSub(total_value, liquid_value)

LiquidityAnalysis(hs) ==
    LET total_value == TotalValue(hs)
    IN  IF total_value = Zero
        THEN [liquid_pct |-> Zero, illiquid_pct |-> Zero]
        ELSE LET value(k) == DictGet(hs[k], "value", Zero)
                 liquid(k) == DictGet(hs[k], "is_liquid", FALSE)
                 class(k) == DictGet(hs[k], "asset_class", "Unknown")
                 idx == [k \in 1..Len(hs) |-> k]
                 part(keep(_)) ==
                    LET ks == SelectSeq(idx, keep)
                    IN  RSum([i \in 1..Len(ks) |-> value(ks[i])])
                 liquid_value == part(LAMBDA k : liquid(k))
                 illiquid_value == IlliquidValue(total_value, liquid_value)
             IN  [liquid_value |-> liquid_value,
                  illiquid_value |-> illiquid_value,
                  liquid_pct |-> RMul(RDiv(liquid_value, total_value), R(100)),
                  illiquid_pct |-> RMul(RDiv(illiquid_value, total_value), R(100)),
                  by_asset_class |->
                    [c \in {class(k) : k \in 1..Len(hs)} |->
                        [liquid |-> part(LAMBDA k : class(k) = c /\ liquid(k)),
                         illiquid |-> part(LAMBDA k : class(k) = c /\ ~liquid(k))]]]

\* A direct call of calculate_concentration_risk with the default threshold.
CalculateConcentrationRisk ==
    /\ last' = [op |-> "calculate_concentration_risk",
                ret |-> ConcentrationRisk(holdings, R(20))]
    /\ UNCHANGED <<investments, transactions, now, holdings, risks, fx_cache, commitments, valuations, session_state>>

HoldingValues == {R(0), R(10), R(100)}

HoldingInputs ==
    {[name |-> "H", value |-> v, asset_class |-> c, is_liquid |-> c = "Public Equities"] :
        v \in HoldingValues, c \in {"Public Equities", "Real Estate"}}

InitConcentration ==
    /\ investments = <<>>
    /\ transactions = <<>>
    /\ now = 1
    /\ \E n \in 0..MaxHoldings : holdings \in [1..n -> HoldingInputs]
    /\ risks = <<>>
    /\ fx_cache = None
    /\ commitments = <<>>
    /\ valuations = <<>>
    /\ session_state = <<>>
    /\ last = NoCall

NextConcentration == CalculateConcentrationRisk

SpecConcentration == InitConcentration /\ [][NextConcentration]_vars

-----------------------------------------------------------------------------
(* Portfolio overview: get_portfolio_overview                               *)

LiquidAssetClasses ==
    {"Public Equities", "Crypto", "Gold", "Cash & Equivalents", "Bonds"}

\* calculate_unrealized_gain
UnrealizedGain(current_value, cost_basis) ==
    LET gain == RSub(current_value, cost_basis)
    IN  [amount |-> gain,
         percentage |-> IF cost_basis # Zero
                        THEN RMul(RDiv(gain, cost_basis), R(100)) ELSE Zero,
         is_gain |-> RLe(Zero, gain)]

FxRate(inv, usd_cad) == IF inv.currency = "USD" THEN usd_cad ELSE R(1)

\* The weight of a holding or of a bucket, given the final total.
HoldingWeight_Fraction(value, total_value_cad) ==
    IF RLt(Zero, total_value_cad) THEN RDiv(value, total_value_cad) ELSE Zero

HoldingWeight(value, total_value_cad) ==
    IF RLt(Zero, total_value_cad)
    THEN RMul(RDiv(value, total_value_cad), R(100)) ELSE Zero

\* A by_entity or by_asset_class dictionary: one bucket per key met in the loop.
Buckets(table, ids, usd_cad, column, total_value_cad) ==
    [key \in {table[ids[k]][column] : k \in 1..Len(ids)} |->
        LET members == SelectSeq(ids, LAMBDA id : table[id][column] = key)
            value == RSum([i \in 1..Len(members) |->
                        RMul(table[members[i]].current_value,
                             FxRate(table[members[i]], usd_cad))])
            cost == RSum([i \in 1..Len(members) |->
                        RMul(table[members[i]].cost_basis,
                             FxRate(table[members[i]], usd_cad))])
        IN  [value |-> value, cost |-> cost, investments |-> members,
             weight |-> HoldingWeight(value, total_value_cad),
             gain |-> RSub(value, cost),
             gain_pct |-> IF RLt(Zero, cost)
                          THEN RMul(RDiv(RSub(value, cost), cost), R(100))
                          ELSE Zero]]

PortfolioOverview(table, usd_cad) ==
    LET ids == AllInvestments(table)
        value_cad(id) == RMul(table[id].current_value, FxRate(table[id], usd_cad))
        cost_cad(id) == RMul(table[id].cost_basis, FxRate(table[id], usd_cad))
        total_value_cad == RSum([k \in 1..Len(ids) |-> value_cad(ids[k])])
        total_cost_basis_cad == RSum([k \in 1..Len(ids) |-> cost_cad(ids[k])])
        holdings_list ==
            [k \in 1..Len(ids) |->
                LET inv == table[ids[k]]
                    gain == UnrealizedGain(value_cad(ids[k]), cost_cad(ids[k]))
                IN  [id |-> ids[k],
                     name |-> inv.name,
                     asset_class |-> inv.asset_class,
                     entity |-> inv.entity,
                     quantity |-> inv.quantity,
                     cost_basis |-> cost_cad(ids[k]),
                     current_value |-> value_cad(ids[k]),
                     current_price |-> inv.current_price,
                     currency |-> inv.currency,
                     unrealized_gain |-> gain.amount,
                     unrealized_gain_pct |-> gain.percentage,
                     weight |-> HoldingWeight(value_cad(ids[k]), total_value_cad),
                     is_liquid |-> inv.asset_class \in LiquidAssetClasses,
                     last_updated |-> inv.last_price_update]]
        total_gain == RSub(total_value_cad, total_cost_basis_cad)
    IN  [summary |->
            [total_value_cad |-> total_value_cad,
             total_cost_basis_cad |-> total_cost_basis_cad,
             total_gain |-> total_gain,
             total_gain_pct |-> IF RLt(Zero, total_cost_basis_cad)
                                THEN RMul(RDiv(total_gain, total_cost_basis_cad), R(100))
                                ELSE Zero,
             investment_count |-> Len(ids),
             usd_cad_rate |-> usd_cad],
         by_entity |-> Buckets(table, ids, usd_cad, "entity", total_value_cad),
         by_asset_class |-> Buckets(table, ids, usd_cad, "asset_class", total_value_cad),
         holdings |-> holdings_list,
         risk |-> [concentration |-> ConcentrationRisk(holdings_list, R(20)),
                   liquidity |-> LiquidityAnalysis(holdings_list)]]

GetPortfolioOverview(usd_cad) ==
    /\ last' = [op |-> "get_portfolio_overview",
                ret |-> PortfolioOverview(investments, usd_cad)]
    /\ UNCHANGED <<investments, transactions, now, holdings, risks, fx_cache, commitments, valuations, session_state>>

\* Three positions as an import stores them: each in CAD or USD, active or
\* exited, with a current value and a cost basis of its own.
OverviewValues == {R(0), R(10), R(100)}
OverviewCosts == {R(0), R(100)}

OverviewPosition(name, asset_class, entity) ==
    {[NewInvestment(name, asset_class, entity, currency, R(10), cost)
        EXCEPT !.current_value = value, !.is_active = active] :
        currency \in {"CAD", "USD"}, cost \in OverviewCosts,
        value \in OverviewValues, active \in BOOLEAN}

InitOverview ==
    /\ \E p1 \in OverviewPosition("A", "Public Equities", "HoldCo"),
          p2 \in OverviewPosition("B", "Venture Fund", "HoldCo"),
          p3 \in OverviewPosition("C", "Public Equities", "Personal") :
            investments = <<p1, p2, p3>>
    /\ transactions = <<>>
    /\ now = 1
    /\ holdings = <<>>
    /\ risks = <<>>
    /\ fx_cache = None
    /\ commitments = <<>>
    /\ valuations = <<>>
    /\ session_state = <<>>
    /\ last = NoCall

NextOverview == \E usd_cad \in UsdCadRates : GetPortfolioOverview(usd_cad)

SpecOverview == InitOverview /\ [][NextOverview]_vars

-----------------------------------------------------------------------------
(* Properties of the cost-basis ledger                                      *)

Position(inv) == <<inv.quantity, inv.cost_basis, inv.cost_per_unit>>

\* The ledger of an investment without the investment_id column.
Ledger(rows, investment_id) ==
    LET txs == TransactionsOf(rows, investment_id)
    IN  [k \in 1..Len(txs) |->
            <<txs[k].transaction_type, txs[k].date, txs[k].quantity,
              txs[k].total_amount>>]

\* C1: after a replay, cost_per_unit * quantity equals cost_basis whenever
\* quantity > 0, and cost_per_unit is 0 whenever quantity <= 0.
C1_CostPerUnitMatchesCostBasis ==
    \A id \in InvIds :
        LET inv == investments[id]
        IN  IF RLt(Zero, inv.quantity)
            THEN RMul(inv.cost_per_unit, inv.quantity) = inv.cost_basis
            ELSE inv.cost_per_unit = Zero

\* A replayed position with quantity > 0 whose average cost is not a whole
\* number (150 units bought for 1600).
C1_Witness ==
    /\ last.op = "add_transaction"
    /\ LET inv == investments[last.id]
       IN  /\ RLt(Zero, inv.quantity)
           /\ inv.cost_per_unit[2] # 1
           /\ Len(Ledger(transactions, last.id)) = 2

\* C2: with non-negative quantities and amounts the cost basis of a replayed
\* position is never negative.
C2_CostBasisNeverNegative ==
    \A id \in InvIds : RLe(Zero, investments[id].cost_basis)

\* The step adds a disposal of fewer units than are held to the end of the
\* ledger of investment id, whose stored position is the replay of its ledger.
PartialSaleAdded(id) ==
    /\ last'.op = "add_transaction"
    /\ last'.id = id
    /\ Len(transactions') = Len(transactions) + 1
    /\ Ledger(transactions, id) # <<>>
    /\ LET tx == transactions'[Len(transactions')]
       IN  /\ tx.transaction_type \in DisposeTypes
           /\ RLt(Zero, tx.quantity)
           /\ RLt(tx.quantity, investments[id].quantity)
           /\ \A k \in 1..Len(transactions) :
                transactions[k].investment_id = id
                    => transactions[k].date <= tx.date

\* C3: a sale of q units, 0 < q < held quantity, reduces cost_basis by q times
\* the average cost before the sale and leaves cost_per_unit unchanged,
\* whatever the total_amount of the sale.
C3_SaleKeepsAverageCost ==
    [][\A id \in InvIds :
          PartialSaleAdded(id) =>
            LET tx == transactions'[Len(transactions')]
                before == investments[id]
                after == investments'[id]
            IN  /\ after.quantity = RSub(before.quantity, tx.quantity)
                /\ after.cost_basis =
                      RSub(before.cost_basis,
                           RMul(tx.quantity, before.cost_per_unit))
                /\ after.cost_per_unit = before.cost_per_unit]_vars

\* Buy 100 units for 1000, then sell 50 for 600: 50 units, cost basis 500,
\* cost per unit 10.
C3_Witness ==
    \E id \in InvIds :
        /\ last = [op |-> "add_transaction", id |-> id]
        /\ \E d1 \in Dates, d2 \in Dates :
             /\ d1 <= d2
             /\ Ledger(transactions, id) =
                  << <<"Buy", d1, R(100), R(1000)>>, <<"Sell", d2, R(50), R(600)>> >>
        /\ Position(investments[id]) = <<R(50), R(500), R(10)>>

\* C4: a second run of update_investment_position with no transaction change
\* leaves the stored values as they are, and two investments with the same
\* ledger have the same position whatever was stored on them before.
C4_ReplayIsFullAndIdempotent ==
    [][/\ ( /\ last.op \in {"add_transaction", "update_investment_position"}
            /\ last'.op = "update_investment_position"
            /\ last'.id = last.id )
          => investments' = investments
       /\ \A i \in InvIds, j \in InvIds :
            ( /\ Ledger(transactions', i) # <<>>
              /\ Ledger(transactions', i) = Ledger(transactions', j) )
            => Position(investments'[i]) = Position(investments'[j])]_vars

\* Both investments hold the same one-purchase ledger and the replay was run
\* again on the one that was entered with a quantity of its own.
C4_Witness ==
    /\ last = [op |-> "update_investment_position", id |-> 2]
    /\ Ledger(transactions, 1) # <<>>
    /\ Ledger(transactions, 1) = Ledger(transactions, 2)
    /\ RLt(Zero, investments[2].quantity)
    /\ Position(investments[1]) = Position(investments[2])

-----------------------------------------------------------------------------
(* Properties of the market price refresh                                   *)

PriceFields(inv) == <<inv.current_price, inv.current_value, inv.last_price_update>>

\* C5: a refresh of N active positions of which M quotes fail returns
\* updated = N - M and M error messages.
C5_RefreshCountsEveryFailure ==
    last.op = "update_market_prices" =>
        /\ last.updated = last.total - Cardinality(last.failed)
        /\ Len(last.errors) = Cardinality(last.failed)

C7_ValueIsPriceTimesQuantity ==
    \A id \in InvIds :
        investments[id].last_price_update # 0 =>
            investments[id].current_value =
                RMul(investments[id].current_price, investments[id].quantity)

-----------------------------------------------------------------------------
(* Properties of the portfolio overview and of the concentration routine    *)

Column(rows, field) == [k \in 1..Len(rows) |-> rows[k][field]]

\* C8: the holding weights of a snapshot sum to 100 when total_value_cad > 0
\* and are all 0 when it is 0; each weight is the holding's converted value
\* over the final total, the sum of all converted values.
C8_WeightsSumTo100 ==
    last.op = "get_portfolio_overview" =>
        LET hs == last.ret.holdings
            total == last.ret.summary.total_value_cad
        IN  /\ total = RSum(Column(hs, "current_value"))
            /\ RLt(Zero, total) =>
                /\ RSum(Column(hs, "weight")) = R(100)
                /\ \A k \in 1..Len(hs) :
                     RMul(hs[k].weight, total) = RMul(hs[k].current_value, R(100))
            /\ total = Zero =>
                /\ RSum(Column(hs, "weight")) = Zero
                /\ \A k \in 1..Len(hs) : hs[k].weight = Zero

\* A snapshot of three holdings, one of them in USD, with three different
\* weights that are not whole numbers.
C8_Witness ==
    /\ last.op = "get_portfolio_overview"
    /\ LET hs == last.ret.holdings
       IN  /\ Len(hs) = 3
           /\ \E k \in 1..3 : hs[k].currency = "USD" /\ hs[k].weight # Zero
           /\ \A k \in 1..3 : hs[k].weight[2] # 1
           /\ Cardinality({hs[k].weight : k \in 1..3}) = 3

\* C9: the risk section is computed from the holdings of the same snapshot:
\* with total_value_cad > 0 the HHI is the sum of (weight/100)^2 * 10000, every
\* holding with weight >= 20 is listed as concentrated, and liquid_pct is the
\* share of the total held by liquid holdings.
C9_RiskMatchesHoldings ==
    last.op = "get_portfolio_overview"
        /\ RLt(Zero, last.ret.summary.total_value_cad) =>
        LET hs == last.ret.holdings
            risk == last.ret.risk
            liquid == SelectSeq(hs, LAMBDA h : h.is_liquid)
        IN  /\ risk.concentration.hhi =
                 RSum([k \in 1..Len(hs) |->
                        RMul(RMul(RDiv(hs[k].weight, R(100)), RDiv(hs[k].weight, R(100))),
                             R(10000))])
            /\ \A k \in 1..Len(hs) :
                 RLe(R(20), hs[k].weight) =>
                    \E i \in 1..Len(risk.concentration.concentrated_positions) :
                        risk.concentration.concentrated_positions[i].name = hs[k].name
            /\ RMul(risk.liquidity.liquid_pct, last.ret.summary.total_value_cad) =
                 RMul(RSum(Column(liquid, "current_value")), R(100))

Permuted(xs, p) == [k \in 1..Len(xs) |-> xs[p[k]]]

\* C10: for holdings with non-negative values the HHI lies in 0..10000, is the
\* same for every permutation of the list, is 10000 when one holding carries
\* the whole value and 0 when the total value is 0.
C10_HhiBoundedAndOrderFree ==
    last.op = "calculate_concentration_risk" =>
        LET hhi == last.ret.hhi
            n == Len(holdings)
            carriers == {k \in 1..n : holdings[k].value # Zero}
        IN  /\ RLe(Zero, hhi) /\ RLe(hhi, R(10000))
            /\ \A p \in Permutations(1..n) :
                 ConcentrationRisk(Permuted(holdings, p), R(20)).hhi = hhi
            /\ Cardinality(carriers) = 1 => hhi = R(10000)
            /\ carriers = {} => hhi = Zero

\* Three holdings of different weights, the last of which is the largest: the
\* HHI is strictly between 0 and 10000.
C10_Witness ==
    /\ last.op = "calculate_concentration_risk"
    /\ Len(holdings) = 3
    /\ holdings[1].value = R(10)
    /\ holdings[2].value = R(10)
    /\ holdings[3].value = R(100)
    /\ RLt(Zero, last.ret.hhi) /\ RLt(last.ret.hhi, R(10000))

\* ---------------------------------------------------------------------------
\* Risk register (src/pages/5_Risk_Register.py, class Risk of src/src/models.py)
\* ---------------------------------------------------------------------------

RiskIds == {1, 2}
EntityIds == {1, 2}
RISK_CATEGORIES == {"Financial", "Legal"}
RISK_STATUSES == {"Identified", "Closed"}

\* The fixed 0-5 scales: the keys of LIKELIHOOD_LABELS and of IMPACT_LABELS.
ScaleValues == 0..5

\* A text is the sequence of its parts between the separators " - ".
Digits == <<"0", "1", "2", "3", "4", "5", "6", "7", "8", "9">>

LIKELIHOOD_LABELS ==
    [n \in ScaleValues |->
        <<Digits[n + 1],
          <<"Not at all", "Very unlikely", "Unlikely", "Reasonably likely",
            "Very likely", "Almost certain">>[n + 1]>>]

IMPACT_LABELS ==
    [n \in ScaleValues |->
        <<Digits[n + 1],
          <<"No impact", "Very minor", "Minor", "Moderate", "Significant",
            "Extreme">>[n + 1]>>]

\* A cell of the risk table is a number of the DataFrame or a text.
NumberCell(n) == [kind |-> "number", n |-> n]
TextCell(parts) == [kind |-> "text", parts |-> parts]

\* Python's int(text) on a text of one character: the digit, or ValueError.
ParseInt(text) ==
    IF \E d \in 0..9 : Digits[d + 1] = text
    THEN [ok |-> TRUE, n |-> CHOOSE d \in 0..9 : Digits[d + 1] = text]
    ELSE [ok |-> FALSE]

\* _parse_scale: a number is taken as it is, a text is split at " - " and its
\* first part parsed; a text that does not parse gives 0.
ParseScale(val) ==
    IF val.kind = "number"
    THEN val.n
    ELSE LET parsed == ParseInt(val.parts[1])
         IN  IF parsed.ok THEN parsed.n ELSE 0

score_label(score) ==
    IF score >= 15 THEN "Critical"
    ELSE IF score >= 5 THEN "Moderate"
    ELSE "Low"

score_color(score) ==
    IF score >= 15 THEN "danger"
    ELSE IF score >= 5 THEN "warning"
    ELSE "success"

\* The score written by add_risk and update_risk: likelihood x impact.
RiskScore_Kept(row, likelihood, impact) == row.risk_score

RiskScore(row, likelihood, impact) == likelihood * impact

ValidScale(n) == n \in ScaleValues

NoRisk ==
    [category |-> "", entity_id |-> 0, status |-> "Identified", likelihood |-> 0,
     impact |-> 0, risk_score |-> 0, next_review_date |-> 0]

\* add_risk: likelihood and impact are validated, the score is computed from
\* them and the row is inserted.  entity_id 0 and next_review_date 0 are NULL.
AddRiskRow(table, id, category, entity_id, likelihood, impact, status, next_review_date) ==
    IF ~ValidScale(likelihood) \/ ~ValidScale(impact)
    THEN [risks |-> table, error |-> TRUE]
    ELSE LET row == [category |-> category, entity_id |-> entity_id,
                     status |-> status, likelihood |-> likelihood,
                     impact |-> impact,
                     risk_score |-> RiskScore(NoRisk, likelihood, impact),
                     next_review_date |-> next_review_date]
         IN  [risks |-> (id :> row) @@ table, error |-> FALSE]

\* update_risk with the keyword arguments the auto-save passes: likelihood and
\* impact are validated, the fields are stored and the score is recomputed.
UpdateRiskRow(table, risk_id, category, entity_id, likelihood, impact, status, next_review_date) ==
    IF risk_id \notin DOMAIN table
    THEN [risks |-> table, error |-> FALSE]
    ELSE IF ~ValidScale(likelihood) \/ ~ValidScale(impact)
    THEN [risks |-> table, error |-> TRUE]
    ELSE LET row == [category |-> category, entity_id |-> entity_id,
                     status |-> status, likelihood |-> likelihood,
                     impact |-> impact,
                     risk_score |-> RiskScore(table[risk_id], likelihood, impact),
                     next_review_date |-> next_review_date]
         IN  [risks |-> [table EXCEPT ![risk_id] = row], error |-> FALSE]

\* The row of the risk table as the page shows it (table_data).
TableRow(row) ==
    [Category |-> row.category, Entity |-> row.entity_id,
     Likelihood |-> NumberCell(row.likelihood), Impact |-> NumberCell(row.impact),
     Status |-> row.status, NextReview |-> row.next_review_date]

\* merged = dict(row_orig); merged.update(changes)
Merged(row_orig, changes) ==
    [column \in DOMAIN row_orig |->
        IF column \in DOMAIN changes THEN changes[column] ELSE row_orig[column]]

\* The auto-save loop over edited_rows, a sequence of <<risk_id, changes>> in
\* the order of the editor state.  update_risk is called once per row; a
\* rejected update either raises out of the loop or returns to it.
RECURSIVE SaveEditedRows(_, _, _, _)
SaveEditedRows(table, original, edited_rows, raises) ==
    IF edited_rows = <<>>
    THEN [risks |-> table, rejected |-> {}]
    ELSE LET risk_id == edited_rows[1][1]
             merged == Merged(TableRow(original[risk_id]), edited_rows[1][2])
             saved == UpdateRiskRow(table, risk_id, merged.Category, merged.Entity,
                                    ParseScale(merged.Likelihood),
                                    ParseScale(merged.Impact), merged.Status,
                                    merged.NextReview)
         IN  IF saved.error /\ raises
             THEN [risks |-> saved.risks, rejected |-> {risk_id}]
             ELSE LET rest == SaveEditedRows(saved.risks, original,
                                             Tail(edited_rows), raises)
                  IN  [risks |-> rest.risks,
                       rejected |-> rest.rejected \cup
                                    (IF saved.error THEN {risk_id} ELSE {})]

\* get_all_risks(session, include_closed=True): every row, in id order.
RECURSIVE IdsInOrder(_)
IdsInOrder(ids) ==
    IF ids = {}
    THEN <<>>
    ELSE LET first == CHOOSE x \in ids : \A y \in ids : x <= y
         IN  <<first>> \o IdsInOrder(ids \ {first})

GetAllRisks(table) ==
    LET ids == IdsInOrder(DOMAIN table)
    IN  [k \in 1..Len(ids) |-> [id |-> ids[k]] @@ table[ids[k]]]

\* get_all_entities: the two default entities of init_db.
Entities == <<[id |-> 1, name |-> "HoldCo"], [id |-> 2, name |-> "Personal"]>>

StatusFilters == {"All (Active)", "All (Including Closed)"} \cup RISK_STATUSES
SeverityFilters == {"All", "Critical (15+)", "Moderate (5-14)", "Low (< 5)"}

\* filtered_risks.sort(key=risk_score, reverse=True): a stable sort.
RECURSIVE InsertByScore(_, _)
InsertByScore(sorted, r) ==
    IF sorted = <<>>
    THEN <<r>>
    ELSE IF r.risk_score > Head(sorted).risk_score
         THEN <<r>> \o sorted
         ELSE <<Head(sorted)>> \o InsertByScore(Tail(sorted), r)

RECURSIVE SortByScore(_)
SortByScore(rs) ==
    IF rs = <<>>
    THEN <<>>
    ELSE InsertByScore(SortByScore(SubSeq(rs, 1, Len(rs) - 1)), rs[Len(rs)])

\* The status filter of the risk list.
StatusFilter_AllWithClosed(rs, filter_status) ==
    IF filter_status \in {"All (Active)", "All (Including Closed)"}
    THEN rs
    ELSE SelectSeq(rs, LAMBDA r : r.status = filter_status)

StatusFilter(rs, filter_status) ==
    IF filter_status = "All (Active)"
    THEN SelectSeq(rs, LAMBDA r : r.status # "Closed")
    ELSE IF filter_status # "All (Including Closed)"
    THEN SelectSeq(rs, LAMBDA r : r.status = filter_status)
    ELSE rs

\* The severity filter of the risk list.
SeverityFilter_ModerateTo15(rs, filter_severity) ==
    IF filter_severity = "Critical (15+)"
    THEN SelectSeq(rs, LAMBDA r : r.risk_score >= 15)
    ELSE IF filter_severity = "Moderate (5-14)"
    THEN SelectSeq(rs, LAMBDA r : 5 <= r.risk_score /\ r.risk_score <= 15)
    ELSE IF filter_severity = "Low (< 5)"
    THEN SelectSeq(rs, LAMBDA r : r.risk_score < 5)
    ELSE rs

SeverityFilter(rs, filter_severity) ==
    IF filter_severity = "Critical (15+)"
    THEN SelectSeq(rs, LAMBDA r : r.risk_score >= 15)
    ELSE IF filter_severity = "Moderate (5-14)"
    THEN SelectSeq(rs, LAMBDA r : 5 <= r.risk_score /\ r.risk_score < 15)
    ELSE IF filter_severity = "Low (< 5)"
    THEN SelectSeq(rs, LAMBDA r : r.risk_score < 5)
    ELSE rs

\* "Apply filters": entity, category, status, severity, then the sort.
FilteredRisks(rs, filter_entity, filter_category, filter_status, filter_severity) ==
    LET by_entity ==
            IF filter_entity # "All"
            THEN LET found == {k \in DOMAIN Entities : Entities[k].name = filter_entity}
                 IN  IF found # {}
                     THEN LET entity_obj == Entities[CHOOSE k \in found :
                                                        \A j \in found : k <= j]
                          IN  SelectSeq(rs, LAMBDA r : r.entity_id = entity_obj.id)
                     ELSE rs
            ELSE rs
        by_category ==
            IF filter_category # "All"
            THEN SelectSeq(by_entity, LAMBDA r : r.category = filter_category)
            ELSE by_entity
        by_status == StatusFilter(by_category, filter_status)
        by_severity == SeverityFilter(by_status, filter_severity)
    IN  SortByScore(by_severity)

\* The summary metrics of the risk list.
SummaryMetrics(rs) ==
    LET active_risks == SelectSeq(rs, LAMBDA r : r.status # "Closed")
    IN  [active_risks |-> active_risks,
         critical |-> SelectSeq(active_risks, LAMBDA r : r.risk_score >= 15),
         moderate |-> SelectSeq(active_risks,
                                LAMBDA r : 5 <= r.risk_score /\ r.risk_score < 15),
         low |-> SelectSeq(active_risks, LAMBDA r : r.risk_score < 5)]

Ids(rs) == {rs[k].id : k \in DOMAIN rs}

\* timedelta(days=30) and timedelta(days=90) of the review calendar.
Upcoming30Days == 30
Upcoming90Days == 90

\* The review calendar at the date today.
ReviewBuckets_OverdueToday(rs, today) ==
    LET risks_with_dates ==
            SelectSeq(rs, LAMBDA r : r.next_review_date # 0 /\ r.status # "Closed")
    IN  [risks_with_dates |-> risks_with_dates,
         overdue |-> SelectSeq(risks_with_dates,
                               LAMBDA r : r.next_review_date <= today),
         upcoming_30 |-> SelectSeq(risks_with_dates,
                               LAMBDA r : today <= r.next_review_date
                                          /\ r.next_review_date <= today + Upcoming30Days),
         upcoming_90 |-> SelectSeq(risks_with_dates,
                               LAMBDA r : today <= r.next_review_date
                                          /\ r.next_review_date <= today + Upcoming90Days)]

ReviewBuckets(rs, today) ==
    LET risks_with_dates ==
            SelectSeq(rs, LAMBDA r : r.next_review_date # 0 /\ r.status # "Closed")
    IN  [risks_with_dates |-> risks_with_dates,
         overdue |-> SelectSeq(risks_with_dates,
                               LAMBDA r : r.next_review_date < today),
         upcoming_30 |-> SelectSeq(risks_with_dates,
                               LAMBDA r : today <= r.next_review_date
                                          /\ r.next_review_date <= today + Upcoming30Days),
         upcoming_90 |-> SelectSeq(risks_with_dates,
                               LAMBDA r : today <= r.next_review_date
                                          /\ r.next_review_date <= today + Upcoming90Days)]

\* The "Add New Risk" form: a new row under the next free id.
AddRisk(category, entity_id, likelihood, impact, status, next_review_date) ==
    /\ RiskIds \ DOMAIN risks # {}
    /\ LET id == CHOOSE x \in RiskIds \ DOMAIN risks :
                    \A y \in RiskIds \ DOMAIN risks : x <= y
           added == AddRiskRow(risks, id, category, entity_id, likelihood, impact,
                               status, next_review_date)
       IN  /\ risks' = added.risks
           /\ last' = [op |-> "add_risk", id |-> id, error |-> added.error]
    /\ UNCHANGED <<investments, transactions, now, holdings, fx_cache, commitments, valuations, session_state>>

\* The cells a user can leave in the Likelihood and Impact columns.
LikelihoodCells ==
    {TextCell(LIKELIHOOD_LABELS[n]) : n \in ScaleValues}
        \cup {TextCell(<<"7">>), TextCell(<<"high">>)}

ImpactCells == {TextCell(IMPACT_LABELS[n]) : n \in {0, 3, 5}}

Unparsed(cell) == cell.kind = "text" /\ ~ParseInt(cell.parts[1]).ok

\* The transition from edit mode to view mode: the pending edits are saved.
AutoSave(edited_rows, raises) ==
    /\ edited_rows # <<>>
    /\ \A k \in DOMAIN edited_rows : edited_rows[k][1] \in DOMAIN risks
    /\ LET saved == SaveEditedRows(risks, risks, edited_rows, raises)
           cells(k) == Merged(TableRow(risks[edited_rows[k][1]]), edited_rows[k][2])
       IN  /\ risks' = saved.risks
           /\ last' = [op |-> "auto_save",
                       unparsed |-> {edited_rows[k][1] : k \in
                                        {j \in DOMAIN edited_rows :
                                            \/ Unparsed(cells(j).Likelihood)
                                            \/ Unparsed(cells(j).Impact)}},
                       out_of_range |-> {edited_rows[k][1] : k \in
                                        {j \in DOMAIN edited_rows :
                                            \/ ~ValidScale(ParseScale(cells(j).Likelihood))
                                            \/ ~ValidScale(ParseScale(cells(j).Impact))}},
                       rejected |-> saved.rejected]
    /\ UNCHANGED <<investments, transactions, now, holdings, fx_cache, commitments, valuations, session_state>>

\* The risk list tab: summary metrics, filters and the severity labels.
RenderRiskList(filter_entity, filter_category, filter_status, filter_severity) ==
    /\ LET rs == GetAllRisks(risks)
           summary == SummaryMetrics(rs)
       IN  last' = [op |-> "risk_list",
                    filter_entity |-> filter_entity,
                    filter_category |-> filter_category,
                    filter_status |-> filter_status,
                    filter_severity |-> filter_severity,
                    active_risks |-> Ids(summary.active_risks),
                    critical |-> Ids(summary.critical),
                    moderate |-> Ids(summary.moderate),
                    low |-> Ids(summary.low),
                    filtered_risks |-> FilteredRisks(rs, filter_entity, filter_category,
                                                     filter_status, filter_severity)]
    /\ UNCHANGED <<investments, transactions, now, holdings, risks, fx_cache, commitments, valuations, session_state>>

\* The review calendar tab, rendered on the date today.
ReviewCalendar(today) ==
    /\ LET buckets == ReviewBuckets(GetAllRisks(risks), today)
       IN  last' = [op |-> "review_calendar", today |-> today,
                    overdue |-> Ids(buckets.overdue),
                    upcoming_30 |-> Ids(buckets.upcoming_30),
                    upcoming_90 |-> Ids(buckets.upcoming_90)]
    /\ UNCHANGED <<investments, transactions, now, holdings, risks, fx_cache, commitments, valuations, session_state>>

InitRisk ==
    /\ investments = <<>>
    /\ transactions = <<>>
    /\ now = 1
    /\ holdings = <<>>
    /\ risks = <<>>
    /\ fx_cache = None
    /\ commitments = <<>>
    /\ valuations = <<>>
    /\ session_state = <<>>
    /\ last = NoCall

\* One edited row with a new likelihood, a new impact or both, or two edited
\* rows, each with a new likelihood.
EditedRows ==
    {<<<<id, changes>>>> :
        id \in RiskIds,
        changes \in [{"Likelihood"} -> LikelihoodCells]
                    \cup [{"Impact"} -> ImpactCells]
                    \cup [{"Likelihood", "Impact"} -> {TextCell(<<"high">>)}]}
    \cup
    {<<<<pair[1], c1>>, <<pair[2], c2>>>> :
        pair \in {ids \in RiskIds \X RiskIds : ids[1] # ids[2]},
        c1 \in [{"Likelihood"} -> {TextCell(<<"7">>)}],
        c2 \in [{"Likelihood"} -> {TextCell(LIKELIHOOD_LABELS[5])}]}

NextRisk ==
    \/ \E likelihood \in ScaleValues, impact \in ScaleValues :
            AddRisk("Financial", 1, likelihood, impact, "Identified", 0)
    \/ \E edited_rows \in EditedRows, raises \in BOOLEAN :
            /\ raises => Len(edited_rows) > 1
            /\ AutoSave(edited_rows, raises)

SpecRisk == InitRisk /\ [][NextRisk]_vars

\* Two risks as add_risk stores them, with any likelihood and impact.
StoredRisk(category, entity_id, likelihood, impact, status, next_review_date) ==
    AddRiskRow(<<>>, 1, category, entity_id, likelihood, impact, status,
               next_review_date).risks[1]

InitSeverity ==
    /\ investments = <<>>
    /\ transactions = <<>>
    /\ now = 1
    /\ holdings = <<>>
    /\ \E l1 \in ScaleValues, i1 \in ScaleValues, l2 \in ScaleValues, i2 \in ScaleValues,
          status2 \in RISK_STATUSES :
            risks = (1 :> StoredRisk("Financial", 1, l1, i1, "Identified", 0))
                 @@ (2 :> StoredRisk("Financial", 1, l2, i2, status2, 0))
    /\ fx_cache = None
    /\ commitments = <<>>
    /\ valuations = <<>>
    /\ session_state = <<>>
    /\ last = NoCall

NextSeverity ==
    \E filter_severity \in SeverityFilters :
        RenderRiskList("All", "All", "All (Active)", filter_severity)

SpecSeverity == InitSeverity /\ [][NextSeverity]_vars

\* C11: after every add_risk and every update_risk, the auto-save of edited
\* rows included, the stored risk_score of every risk equals its stored
\* likelihood times its stored impact.
C11_ScoreIsLikelihoodTimesImpact ==
    \A id \in DOMAIN risks :
        risks[id].risk_score = risks[id].likelihood * risks[id].impact

\* An auto-save has stored a likelihood of 5 on a risk of impact 3 beside a
\* risk whose score is 0.
C11_Witness ==
    /\ last.op = "auto_save"
    /\ last.rejected = {}
    /\ DOMAIN risks = RiskIds
    /\ risks[1].likelihood = 5 /\ risks[1].impact = 3 /\ risks[1].risk_score = 15
    /\ risks[2].likelihood = 0 /\ risks[2].impact = 4 /\ risks[2].risk_score = 0

SeverityOf(filter_severity) ==
    IF filter_severity = "Critical (15+)" THEN "Critical"
    ELSE IF filter_severity = "Moderate (5-14)" THEN "Moderate"
    ELSE "Low"

BandRank(label) ==
    IF label = "Critical" THEN 3 ELSE IF label = "Moderate" THEN 2 ELSE 1

\* C12: every score 0..25 falls in exactly one band, Critical from 15, Moderate
\* from 5 to 14, Low below 5; score_label, score_color, the summary counts and
\* the severity filter agree on it, the band never falls as the score rises,
\* 4 x 4 is Critical and a likelihood or impact of 0 is Low.
C12_BandingIsConsistent ==
    /\ \A score \in 0..25 :
        /\ score_label(score) = (IF score >= 15 THEN "Critical"
                                 ELSE IF score >= 5 THEN "Moderate" ELSE "Low")
        /\ score_color(score) = "danger" <=> score_label(score) = "Critical"
        /\ score_color(score) = "warning" <=> score_label(score) = "Moderate"
        /\ score_color(score) = "success" <=> score_label(score) = "Low"
        /\ \A higher \in score..25 :
                BandRank(score_label(score)) <= BandRank(score_label(higher))
    /\ last.op = "risk_list" =>
        \A id \in last.active_risks :
            LET label == score_label(risks[id].risk_score)
            IN  /\ id \in last.critical <=> label = "Critical"
                /\ id \in last.moderate <=> label = "Moderate"
                /\ id \in last.low <=> label = "Low"
                /\ id \in Ids(last.filtered_risks) <=>
                        \/ last.filter_severity = "All"
                        \/ SeverityOf(last.filter_severity) = label
                /\ risks[id].likelihood = 4 /\ risks[id].impact = 4 => label = "Critical"
                /\ risks[id].likelihood = 0 \/ risks[id].impact = 0 => label = "Low"

\* The list filtered to Critical shows a risk of likelihood 4 and impact 4 and
\* leaves out a risk of score 15 - 3 = 12 that the summary counts as Moderate.
C12_Witness ==
    /\ last.op = "risk_list"
    /\ last.filter_severity = "Critical (15+)"
    /\ risks[1].likelihood = 4 /\ risks[1].impact = 4
    /\ Ids(last.filtered_risks) = {1}
    /\ risks[2].risk_score = 12
    /\ last.moderate = {2}

\* C13: an update whose likelihood or impact cell does not parse, or parses to
\* a value outside 0..5, is rejected and leaves the stored risk as it was.
C13_InvalidScaleRejected ==
    [][last'.op = "auto_save" =>
        \A id \in last'.unparsed \cup last'.out_of_range :
            id \in last'.rejected /\ risks'[id] = risks[id]]_vars

\* Two stored risks of either entity, category and status, with a score of 5
\* or of 15.
ListedRisks ==
    {StoredRisk(category, entity_id, sc[1], sc[2], status, 0) :
        category \in RISK_CATEGORIES, entity_id \in EntityIds,
        sc \in {<<1, 5>>, <<3, 5>>}, status \in RISK_STATUSES}

InitRiskList ==
    /\ investments = <<>>
    /\ transactions = <<>>
    /\ now = 1
    /\ holdings = <<>>
    /\ risks \in [RiskIds -> ListedRisks]
    /\ fx_cache = None
    /\ commitments = <<>>
    /\ valuations = <<>>
    /\ session_state = <<>>
    /\ last = NoCall

NextRiskList ==
    \E filter_entity \in {"All", "HoldCo"}, filter_category \in {"All", "Financial"},
       filter_status \in StatusFilters,
       filter_severity \in {"All", "Critical (15+)"} :
        RenderRiskList(filter_entity, filter_category, filter_status, filter_severity)

SpecRiskList == InitRiskList /\ [][NextRiskList]_vars

\* Two stored risks, open or closed, without a review date (0) or with one
\* around the dates the calendar is rendered on.
ReviewDates == {0, 99, 100, 130, 131, 190, 191}
TodayDates == {100, 101}

InitReview ==
    /\ investments = <<>>
    /\ transactions = <<>>
    /\ now = 1
    /\ holdings = <<>>
    /\ risks \in [RiskIds ->
                    {StoredRisk("Financial", 1, 3, 3, status, d) :
                        status \in RISK_STATUSES, d \in ReviewDates}]
    /\ fx_cache = None
    /\ commitments = <<>>
    /\ valuations = <<>>
    /\ session_state = <<>>
    /\ last = NoCall

NextReview == \E today \in TodayDates : ReviewCalendar(today)

SpecReview == InitReview /\ [][NextReview]_vars

EntityNamed(name) == CHOOSE e \in {Entities[k] : k \in DOMAIN Entities} : e.name = name

\* C14: the filtered list holds exactly the risks that satisfy each of the four
\* selected predicates, each risk once; the default status selection leaves
\* out every Closed risk and a filter set to All removes nothing.
C14_FilterIsIntersection ==
    last.op = "risk_list" =>
        LET by_entity == {id \in DOMAIN risks :
                            \/ last.filter_entity = "All"
                            \/ risks[id].entity_id = EntityNamed(last.filter_entity).id}
            by_category == {id \in DOMAIN risks :
                            \/ last.filter_category = "All"
                            \/ risks[id].category = last.filter_category}
            by_status == {id \in DOMAIN risks :
                            IF last.filter_status = "All (Active)"
                            THEN risks[id].status # "Closed"
                            ELSE \/ last.filter_status = "All (Including Closed)"
                                 \/ risks[id].status = last.filter_status}
            by_severity == {id \in DOMAIN risks :
                            \/ last.filter_severity = "All"
                            \/ score_label(risks[id].risk_score)
                                    = SeverityOf(last.filter_severity)}
        IN  /\ Ids(last.filtered_risks)
                    = by_entity \cap by_category \cap by_status \cap by_severity
            /\ Len(last.filtered_risks) = Cardinality(Ids(last.filtered_risks))
            /\ \A k \in DOMAIN last.filtered_risks :
                    last.filtered_risks[k] = [id |-> last.filtered_risks[k].id]
                                                @@ risks[last.filtered_risks[k].id]

\* Two critical financial risks of the same entity, the second one closed: the
\* list filtered to that entity, category and severity under the default
\* status selection shows the first only.
C14_Witness ==
    /\ last.op = "risk_list"
    /\ last.filter_entity = "HoldCo" /\ last.filter_category = "Financial"
    /\ last.filter_status = "All (Active)" /\ last.filter_severity = "Critical (15+)"
    /\ risks[1].status = "Identified" /\ risks[2].status = "Closed"
    /\ \A id \in RiskIds :
        risks[id].entity_id = 1 /\ risks[id].category = "Financial"
            /\ risks[id].risk_score = 15
    /\ Ids(last.filtered_risks) = {1}

\* C15: a risk that is not Closed and has a review date d is overdue iff
\* d < today, due in 30 days iff today <= d <= today + 30 and due in 90 days
\* iff today <= d <= today + 90; closed and undated risks are in no bucket,
\* overdue is disjoint from the upcoming buckets and 30 days lies within 90.
C15_ReviewBuckets ==
    last.op = "review_calendar" =>
        /\ \A id \in DOMAIN risks :
            LET d == risks[id].next_review_date
                listed == risks[id].status # "Closed" /\ d # 0
            IN  /\ id \in last.overdue <=> listed /\ d < last.today
                /\ id \in last.upcoming_30 <=>
                        listed /\ last.today <= d /\ d <= last.today + 30
                /\ id \in last.upcoming_90 <=>
                        listed /\ last.today <= d /\ d <= last.today + 90
        /\ last.overdue \cap (last.upcoming_30 \cup last.upcoming_90) = {}
        /\ last.upcoming_30 \subseteq last.upcoming_90

\* On day 100 a review of day 99 is overdue and a review of day 130 is due in
\* 30 days and in 90 days.
C15_Witness ==
    /\ last.op = "review_calendar"
    /\ last.today = 100
    /\ risks[1].next_review_date = 99 /\ risks[2].next_review_date = 130
    /\ last.overdue = {1}
    /\ last.upcoming_30 = {2}
    /\ last.upcoming_90 = {2}

\* ---------------------------------------------------------------------------
\* Money-weighted return (calculate_irr and xirr of src/src/calculations.py)
\* ---------------------------------------------------------------------------

MaxFlows == 2

\* Cash flows fall on day 0 or one year later, so that (1 + rate) ** (days / 365.0)
\* is 1 or 1 + rate and the net present value is a rational number.
FlowDays == {0, 365}
FlowAmounts == {R(-100), R(0), R(100), R(110)}

Discount(rate, days) == IF days = 0 THEN R(1) ELSE RAdd(R(1), rate)

\* npv(rate) of xirr.
Npv(dates_days, amounts, rate) ==
    RSum([i \in 1..Len(amounts) |-> RDiv(amounts[i], Discount(rate, dates_days[i]))])

\* The bracket of optimize.brentq(npv, -0.9999, 10).
BrentLow == Rat(-9999, 10000)
BrentHigh == R(10)

\* brentq raises ValueError when npv has the same sign at both ends of the
\* bracket (f(a) * f(b) > 0); it returns
\* an end of the bracket where npv is 0 and otherwise the root inside, which
\* for flows on day 0 (sum a0) and day 365 (sum a1) is -a1 / a0 - 1.
Brentq(dates_days, amounts) ==
    LET fa == Npv(dates_days, amounts, BrentLow)
        fb == Npv(dates_days, amounts, BrentHigh)
        a0 == RSum([i \in 1..Len(amounts) |->
                        IF dates_days[i] = 0 THEN amounts[i] ELSE Zero])
        a1 == RSum([i \in 1..Len(amounts) |->
                        IF dates_days[i] = 0 THEN Zero ELSE amounts[i]])
    IN  IF (RLt(Zero, fa) /\ RLt(Zero, fb)) \/ (RLt(fa, Zero) /\ RLt(fb, Zero))
        THEN [raised |-> TRUE]
        ELSE IF fa = Zero THEN [raised |-> FALSE, root |-> BrentLow]
        ELSE IF fb = Zero THEN [raised |-> FALSE, root |-> BrentHigh]
        ELSE [raised |-> FALSE, root |-> RSub(RDiv(RSub(Zero, a1), a0), R(1))]

\* optimize.newton(npv, 0.1): the secant iteration ends with a number or with
\* an exception, which xirr turns into None.
NewtonOutcomes == {None, Rat(1, 10)}

xirr_ZeroWhenOneSided(dates_days, amounts, newton) ==
    IF Len(dates_days) < 2 \/ Len(amounts) < 2
    THEN None
    ELSE IF \/ \A i \in 1..Len(amounts) : RLe(Zero, amounts[i])
            \/ \A i \in 1..Len(amounts) : RLe(amounts[i], Zero)
    THEN Zero
    ELSE LET bracketed == Brentq(dates_days, amounts)
         IN  IF bracketed.raised THEN newton ELSE bracketed.root

xirr(dates_days, amounts, newton) ==
    IF Len(dates_days) < 2 \/ Len(amounts) < 2
    THEN None
    ELSE IF \/ \A i \in 1..Len(amounts) : RLe(Zero, amounts[i])
            \/ \A i \in 1..Len(amounts) : RLe(amounts[i], Zero)
    THEN None
    ELSE LET bracketed == Brentq(dates_days, amounts)
         IN  IF bracketed.raised THEN newton ELSE bracketed.root

\* sorted(cash_flows, key=lambda x: x[0]): a stable sort by date.
RECURSIVE InsertFlow(_, _)
InsertFlow(sorted, cf) ==
    IF sorted = <<>>
    THEN <<cf>>
    ELSE IF cf[1] < Head(sorted)[1]
         THEN <<cf>> \o sorted
         ELSE <<Head(sorted)>> \o InsertFlow(Tail(sorted), cf)

RECURSIVE SortedFlows(_)
SortedFlows(cash_flows) ==
    IF cash_flows = <<>>
    THEN <<>>
    ELSE InsertFlow(SortedFlows(SubSeq(cash_flows, 1, Len(cash_flows) - 1)),
                    cash_flows[Len(cash_flows)])

\* calculate_irr: the record of the xirr call made, if any, and the value
\* returned.
calculate_irr(cash_flows, current_value, current_date, newton) ==
    IF cash_flows = <<>>
    THEN [called_xirr |-> FALSE, xirr |-> None, ret |-> None]
    ELSE LET all_flows == SortedFlows(cash_flows) \o <<<<current_date, current_value>>>>
             first_date == all_flows[1][1]
             dates_days == [k \in 1..Len(all_flows) |-> all_flows[k][1] - first_date]
             amounts == [k \in 1..Len(all_flows) |-> all_flows[k][2]]
             irr == xirr(dates_days, amounts, newton)
         IN  [called_xirr |-> TRUE, xirr |-> irr,
              ret |-> IF irr # None THEN RMul(irr, R(100)) ELSE None]

\* A direct call of xirr on the days and amounts of the flows in holdings.
Xirr(newton) ==
    /\ last' = [op |-> "xirr",
                ret |-> xirr([k \in 1..Len(holdings) |-> holdings[k][1]],
                             [k \in 1..Len(holdings) |-> holdings[k][2]], newton)]
    /\ UNCHANGED <<investments, transactions, now, holdings, risks, fx_cache, commitments, valuations, session_state>>

\* A call of calculate_irr on the flows in holdings, valued one year after day 0.
CalculateIrr(current_value, newton) ==
    /\ LET result == calculate_irr(holdings, current_value, 365, newton)
       IN  last' = [op |-> "calculate_irr", current_value |-> current_value,
                    called_xirr |-> result.called_xirr, xirr |-> result.xirr,
                    ret |-> result.ret]
    /\ UNCHANGED <<investments, transactions, now, holdings, risks, fx_cache, commitments, valuations, session_state>>

InitIrr ==
    /\ investments = <<>>
    /\ transactions = <<>>
    /\ now = 1
    /\ \E n \in 0..MaxFlows : holdings \in [1..n -> FlowDays \X FlowAmounts]
    /\ risks = <<>>
    /\ fx_cache = None
    /\ commitments = <<>>
    /\ valuations = <<>>
    /\ session_state = <<>>
    /\ last = NoCall

NextIrr ==
    \/ \E newton \in NewtonOutcomes : Xirr(newton)
    \/ \E current_value \in {R(0), R(110)}, newton \in NewtonOutcomes :
            CalculateIrr(current_value, newton)

SpecIrr == InitIrr /\ [][NextIrr]_vars

\* C16: xirr returns None for fewer than 2 flows and for flows without a
\* negative or without a positive amount; calculate_irr returns None for an
\* empty list of flows and whenever xirr returns None.
C16_IrrUndefinedIsNone ==
    /\ last.op = "xirr" =>
        LET amounts == [k \in 1..Len(holdings) |-> holdings[k][2]]
        IN  (\/ Len(holdings) < 2
             \/ ~\E k \in 1..Len(amounts) : RLt(amounts[k], Zero)
             \/ ~\E k \in 1..Len(amounts) : RLt(Zero, amounts[k]))
                => last.ret = None
    /\ last.op = "calculate_irr" =>
        /\ holdings = <<>> => last.ret = None
        /\ (last.called_xirr /\ last.xirr = None) => last.ret = None

\* calculate_irr on a single outflow of 100 with a current value of 0: xirr is
\* called on two flows, none of them positive, and both return None.
C16_Witness ==
    /\ last.op = "calculate_irr"
    /\ holdings = <<<<0, R(-100)>>>>
    /\ last.current_value = R(0)
    /\ last.called_xirr
    /\ last.xirr = None
    /\ last.ret = None

\* ---------------------------------------------------------------------------
\* Currency conversion of the portfolio overview (src/src/portfolio.py)
\* ---------------------------------------------------------------------------

\* Two positions as import_investments stores them, with the currency of the
\* imported row: CAD, USD or EUR.
ImportedCurrencies == {"CAD", "USD", "EUR"}

CurrencyPosition(name, entity) ==
    {[NewInvestment(name, "Public Equities", entity, currency, R(10), R(100))
        EXCEPT !.current_value = value, !.is_active = active] :
        currency \in ImportedCurrencies, value \in {R(10), R(100)},
        active \in BOOLEAN}

InitCurrency ==
    /\ \E p1 \in CurrencyPosition("A", "HoldCo"), p2 \in CurrencyPosition("B", "Personal") :
            investments = <<p1, p2>>
    /\ transactions = <<>>
    /\ now = 1
    /\ holdings = <<>>
    /\ risks = <<>>
    /\ fx_cache = None
    /\ commitments = <<>>
    /\ valuations = <<>>
    /\ session_state = <<>>
    /\ last = NoCall

NextCurrency == \E usd_cad \in UsdCadRates : GetPortfolioOverview(usd_cad)

SpecCurrency == InitCurrency /\ [][NextCurrency]_vars

\* The EUR/CAD rate of the market (get_fx_rate('EUR', 'CAD')).
EurCadRate == Rat(3, 2)

\* The rate of the currency pair from_currency/CAD.
PairRate(from_currency, usd_cad) ==
    IF from_currency = "CAD" THEN R(1)
    ELSE IF from_currency = "USD" THEN usd_cad
    ELSE EurCadRate

\* C17: in the overview a CAD position keeps its native value and cost and a
\* position in any other currency has both multiplied by the rate of its own
\* currency pair.
C17_ConvertedAtOwnPairRate ==
    last.op = "get_portfolio_overview" =>
        \A k \in DOMAIN last.ret.holdings :
            LET h == last.ret.holdings[k]
                inv == investments[h.id]
                rate == PairRate(inv.currency, last.ret.summary.usd_cad_rate)
            IN  /\ h.current_value = RMul(inv.current_value, rate)
                /\ h.cost_basis = RMul(inv.cost_basis, rate)

\* ---------------------------------------------------------------------------
\* FX rate lookup (MarketDataProvider of src/src/market_data.py)
\* ---------------------------------------------------------------------------

MaxTicks == 4

\* self.cache_timeout, in seconds, and the seconds between two readings of
\* time.time() in the model.
cache_timeout == 900
TickSeconds == 300

\* The fallback rate of get_usd_cad_rate.
FallbackUsdCad == Rat(27, 20)

\* What the Yahoo Finance history of the pair gives: a closing rate, an empty
\* frame or an exception.
LiveRate(rate) == [kind |-> "rate", rate |-> rate]
LiveEmpty == [kind |-> "empty"]
LiveRaises == [kind |-> "raise"]
LiveOutcomes == {LiveRate(Rat(5, 4)), LiveRate(Rat(13, 10)), LiveEmpty, LiveRaises}

\* The cache of the provider maps a key to <<value, time stored>>; the key of
\* a currency pair is f"fx_{from_currency}_{to_currency}".
FxKey(from_currency, to_currency) == <<"fx", from_currency, to_currency>>

\* _is_cache_valid
IsCacheValid(cache, key, clock) ==
    key \in DOMAIN cache /\ clock - cache[key][2] < cache_timeout

\* _get_cache
GetCache(cache, key, clock) ==
    IF IsCacheValid(cache, key, clock) THEN cache[key][1] ELSE None

\* get_fx_rate: the rate returned (None when there is none), whether the live
\* lookup was made, and the cache left behind.
get_fx_rate(cache, from_currency, to_currency, clock, live) ==
    IF from_currency = to_currency
    THEN [ret |-> R(1), looked_up |-> FALSE, cache |-> cache]
    ELSE LET cache_key == FxKey(from_currency, to_currency)
             cached == GetCache(cache, cache_key, clock)
         IN  IF cached # None /\ cached # Zero
             THEN [ret |-> cached, looked_up |-> FALSE, cache |-> cache]
             ELSE IF live.kind = "rate"
             THEN [ret |-> live.rate, looked_up |-> TRUE,
                   cache |-> (cache_key :> <<live.rate, clock>>) @@ cache]
             ELSE [ret |-> None, looked_up |-> TRUE, cache |-> cache]

\* get_usd_cad_rate: rate if rate else 1.35
get_usd_cad_rate(cache, clock, live) ==
    LET fetched == get_fx_rate(cache, "USD", "CAD", clock, live)
    IN  [fetched EXCEPT !.ret = IF fetched.ret # None /\ fetched.ret # Zero
                                THEN fetched.ret ELSE FallbackUsdCad]

\* The overview and the price refresh read the USD/CAD rate.
GetUsdCadRate(live) ==
    /\ LET result == get_usd_cad_rate(fx_cache, now, live)
       IN  /\ fx_cache' = result.cache
           /\ last' = [op |-> "get_usd_cad_rate", from_currency |-> "USD",
                       ret |-> result.ret,
                       live_failed |-> result.looked_up /\ live.kind # "rate"]
    /\ UNCHANGED <<investments, transactions, now, holdings, risks, commitments, valuations, session_state>>

\* The sidebar reads the rate of another pair.
GetFxRate(from_currency, live) ==
    /\ LET result == get_fx_rate(fx_cache, from_currency, "CAD", now, live)
       IN  /\ fx_cache' = result.cache
           /\ last' = [op |-> "get_fx_rate", from_currency |-> from_currency,
                       ret |-> result.ret,
                       live_failed |-> result.looked_up /\ live.kind # "rate"]
    /\ UNCHANGED <<investments, transactions, now, holdings, risks, commitments, valuations, session_state>>

\* Time passes.
Tick ==
    /\ now < MaxTicks * TickSeconds
    /\ now' = now + TickSeconds
    /\ UNCHANGED <<investments, transactions, holdings, risks, fx_cache, commitments, last, valuations, session_state>>

InitFx ==
    /\ investments = <<>>
    /\ transactions = <<>>
    /\ now = 0
    /\ holdings = <<>>
    /\ risks = <<>>
    /\ fx_cache = <<>>
    /\ commitments = <<>>
    /\ valuations = <<>>
    /\ session_state = <<>>
    /\ last = NoCall

NextFx ==
    \/ \E live \in LiveOutcomes : GetUsdCadRate(live)
    \/ \E live \in {LiveRate(Rat(3, 2)), LiveEmpty} : GetFxRate("EUR", live)
    \/ Tick

SpecFx == InitFx /\ [][NextFx]_vars

\* C18: when the live lookup fails or returns no data, the rate used is the
\* latest rate obtained earlier for the pair if there is one, and the fixed
\* default only if no rate was ever obtained.
C18_FallsBackToLastKnownRate ==
    (last.op = "get_usd_cad_rate" /\ last.live_failed) =>
        last.ret = (IF FxKey("USD", "CAD") \in DOMAIN fx_cache
                    THEN fx_cache[FxKey("USD", "CAD")][1]
                    ELSE FallbackUsdCad)

\* C19: after update_market_prices every active position whose quote failed
\* or whose asset class is illiquid is valued at its last manual NAV if one is
\* recorded and at its cost basis otherwise.
C19_NoQuoteValuedAtNavOrCost ==
    last.op = "update_market_prices" =>
        \A id \in InvIds :
            (/\ investments[id].is_active
             /\ \/ id \in last.failed
                \/ investments[id].asset_class \in IlliquidClasses)
                => investments[id].current_value =
                        (IF investments[id].last_nav # None
                         THEN investments[id].last_nav
                         ELSE investments[id].cost_basis)

\* ---------------------------------------------------------------------------
\* Fund investment import (migrate_spreadsheet of src/src/migrate_spreadsheet.py)
\* ---------------------------------------------------------------------------

MaxRows == 2

\* A row of the sheet "7. Fund Investments" after parse_float: the fund, its
\* cost, its fair market value, its total commitment in CAD and in USD and its
\* remaining commitment.  The fair market value and USD columns are empty.
FundNames == {"Fund A", "Fund B"}

FundRows ==
    {[name |-> name, cost_cad |-> R(50), fmv |-> Zero,
      total_commitment_cad |-> total, total_commitment_usd |-> Zero,
      remaining_commitment |-> remaining] :
        name \in FundNames, total \in {R(0), R(100)},
        remaining \in {R(40), R(150)}}

\* One row of the loop: the investment is created or updated, then its
\* commitment is created or overwritten.
ImportFundRow(tables, row) ==
    LET current_value == IF RLt(Zero, row.fmv) THEN row.fmv ELSE row.cost_cad
        total_commitment ==
            IF RLt(Zero, row.total_commitment_cad) THEN row.total_commitment_cad
            ELSE IF RLt(Zero, row.total_commitment_usd)
                 THEN RMul(row.total_commitment_usd, Rat(137, 100))
                 ELSE Zero
        remaining_commitment == row.remaining_commitment
        funds == tables.investments
        commits == tables.commitments
    IN  IF row.cost_cad = Zero /\ current_value = Zero /\ total_commitment = Zero
        THEN tables
        ELSE LET inv ==
                    IF row.name \in DOMAIN funds
                    THEN [funds[row.name] EXCEPT
                            !.cost_basis = IF RLt(Zero, row.cost_cad)
                                           THEN row.cost_cad ELSE @,
                            !.current_value = IF RLt(Zero, current_value)
                                              THEN current_value ELSE @]
                    ELSE [cost_basis |-> row.cost_cad,
                          current_value |-> IF RLt(Zero, current_value)
                                            THEN current_value ELSE row.cost_cad]
                 commit ==
                    IF row.name \in DOMAIN commits
                    THEN [commits[row.name] EXCEPT
                            !.total_commitment = total_commitment,
                            !.unfunded_commitment = remaining_commitment]
                    ELSE [total_commitment |-> total_commitment,
                          unfunded_commitment |-> remaining_commitment,
                          capital_called |->
                            IF RLt(remaining_commitment, total_commitment)
                            THEN RSub(total_commitment, remaining_commitment)
                            ELSE Zero]
             IN  [investments |-> (row.name :> inv) @@ funds,
                  commitments |->
                    IF RLt(Zero, total_commitment) \/ RLt(Zero, remaining_commitment)
                    THEN (row.name :> commit) @@ commits
                    ELSE commits]

RECURSIVE ImportFundRows(_, _)
ImportFundRows(tables, rows) ==
    IF rows = <<>>
    THEN tables
    ELSE ImportFundRows(ImportFundRow(tables, Head(rows)), Tail(rows))

\* Section 3 of migrate_spreadsheet on a sheet of fund rows.
ImportFundInvestments(rows) ==
    /\ LET imported == ImportFundRows([investments |-> investments,
                                       commitments |-> commitments], rows)
       IN  /\ investments' = imported.investments
           /\ commitments' = imported.commitments
    /\ last' = [op |-> "migrate_spreadsheet", rows |-> Len(rows)]
    /\ UNCHANGED <<transactions, now, holdings, risks, fx_cache, valuations, session_state>>

InitImport ==
    /\ investments = <<>>
    /\ transactions = <<>>
    /\ now = 1
    /\ holdings = <<>>
    /\ risks = <<>>
    /\ fx_cache = None
    /\ commitments = <<>>
    /\ valuations = <<>>
    /\ session_state = <<>>
    /\ last = NoCall

NextImport ==
    \E n \in 0..MaxRows : \E rows \in [1..n -> FundRows] : ImportFundInvestments(rows)

SpecImport == InitImport /\ [][NextImport]_vars

\* C20: every commitment written by the fund import has capital_called +
\* unfunded_commitment = total_commitment.
C20_CommitmentBalances ==
    \A name \in DOMAIN commitments :
        RAdd(commitments[name].capital_called, commitments[name].unfunded_commitment)
            = commitments[name].total_commitment

-----------------------------------------------------------------------------
(* Properties of calculate_concentration_risk and                           *)
(* calculate_liquidity_analysis called directly                             *)

\* The weight in percent of holding k of a list whose values sum to total.
WeightPct(hs, k) ==
    RMul(RDiv(hs[k].value, RSum(Column(hs, "value"))), R(100))

\* C21: calculate_concentration_risk always reports is_concentrated; it is
\* true exactly when HHI > 2500 or a holding has weight >= the threshold; the
\* holdings meeting the threshold, and no others, are listed in
\* concentrated_positions; for an empty list or a total value of 0 it is
\* false and no position is listed.
C21_AlwaysReportsIsConcentrated ==
    last.op = "calculate_concentration_risk" =>
        LET ret == last.ret
            n == Len(holdings)
            total == RSum(Column(holdings, "value"))
            meeting == IF total = Zero THEN <<>>
                       ELSE SelectSeq([k \in 1..n |-> k],
                                      LAMBDA k : RLe(R(20), WeightPct(holdings, k)))
        IN  /\ "is_concentrated" \in DOMAIN ret
            /\ ret.is_concentrated = (RLt(R(2500), ret.hhi) \/ meeting # <<>>)
            /\ Len(ret.concentrated_positions) = Len(meeting)
            /\ \A i \in 1..Len(meeting) :
                    /\ ret.concentrated_positions[i].value = holdings[meeting[i]].value
                    /\ ret.concentrated_positions[i].weight = WeightPct(holdings, meeting[i])
            /\ total = Zero =>
                    ~ret.is_concentrated /\ ret.concentrated_positions = <<>>

\* A direct call of calculate_liquidity_analysis.
CalculateLiquidityAnalysis ==
    /\ last' = [op |-> "calculate_liquidity_analysis",
                ret |-> LiquidityAnalysis(holdings)]
    /\ UNCHANGED <<investments, transactions, now, holdings, risks, fx_cache, commitments, valuations, session_state>>

NextLiquidity == CalculateLiquidityAnalysis

SpecLiquidity == InitConcentration /\ [][NextLiquidity]_vars

\* C22: liquid_pct and illiquid_pct are the shares of the total value held by
\* the holdings whose is_liquid flag is true and false; they sum to 100 when
\* the total value is > 0 and are both 0 when it is 0.
C22_LiquidityPercentages ==
    last.op = "calculate_liquidity_analysis" =>
        LET ret == last.ret
            total == RSum(Column(holdings, "value"))
            liquid == SelectSeq(holdings, LAMBDA h : h.is_liquid)
            illiquid == SelectSeq(holdings, LAMBDA h : ~h.is_liquid)
        IN  /\ RLt(Zero, total) =>
                /\ RAdd(ret.liquid_pct, ret.illiquid_pct) = R(100)
                /\ RMul(ret.liquid_pct, total) =
                        RMul(RSum(Column(liquid, "value")), R(100))
                /\ RMul(ret.illiquid_pct, total) =
                        RMul(RSum(Column(illiquid, "value")), R(100))
            /\ total = Zero =>
                ret.liquid_pct = Zero /\ ret.illiquid_pct = Zero

\* Three holdings, liquid and illiquid, whose shares are not whole numbers.
C22_Witness ==
    /\ last.op = "calculate_liquidity_analysis"
    /\ Len(holdings) = 3
    /\ \E k \in 1..3 : holdings[k].is_liquid /\ holdings[k].value # Zero
    /\ \E k \in 1..3 : ~holdings[k].is_liquid /\ holdings[k].value # Zero
    /\ last.ret.liquid_pct[2] # 1
    /\ last.ret.illiquid_pct[2] # 1

-----------------------------------------------------------------------------
(* Simple return: calculate_simple_return and the gain percentages of the   *)
(* portfolio overview                                                       *)

calculate_simple_return(current_value, cost_basis) ==
    IF cost_basis = Zero THEN Zero
    ELSE RMul(RDiv(RSub(current_value, cost_basis), cost_basis), R(100))

ReturnValues == {R(0), R(75000)}
ReturnCosts == {R(0), R(50000), R(-600)}

\* A direct call of calculate_simple_return.
CalculateSimpleReturn(current_value, cost_basis) ==
    /\ last' = [op |-> "calculate_simple_return",
                current_value |-> current_value, cost_basis |-> cost_basis,
                ret |-> calculate_simple_return(current_value, cost_basis)]
    /\ UNCHANGED <<investments, transactions, now, holdings, risks, fx_cache, commitments, valuations, session_state>>

\* The ledger of the two imported positions grows by purchases and sales and
\* the overview is taken in between.
NextReturn ==
    \/ \E id \in InvIds, type \in {"Buy", "Sell"}, quantity \in TxQuantities :
            AddTransaction(id, type, 1, quantity, R(600))
    \/ \E usd_cad \in UsdCadRates : GetPortfolioOverview(usd_cad)
    \/ \E current_value \in ReturnValues, cost_basis \in ReturnCosts :
            CalculateSimpleReturn(current_value, cost_basis)

SpecReturn == InitLedger /\ [][NextReturn]_vars

\* C23: calculate_simple_return is (current_value - cost_basis) / cost_basis
\* * 100 for cost_basis # 0 and 0 for cost_basis = 0, and the holding, bucket
\* and overall gain percentages of a snapshot are that same function of their
\* value and cost.
C23_GainPercentagesAgree ==
    LET expected(value, cost) ==
            IF cost = Zero THEN Zero
            ELSE RDiv(RMul(RSub(value, cost), R(100)), cost)
    IN  /\ last.op = "calculate_simple_return" =>
                last.ret = expected(last.current_value, last.cost_basis)
        /\ last.op = "get_portfolio_overview" =>
                LET ret == last.ret
                IN  /\ \A k \in 1..Len(ret.holdings) :
                            ret.holdings[k].unrealized_gain_pct =
                                expected(ret.holdings[k].current_value,
                                         ret.holdings[k].cost_basis)
                    /\ \A e \in DOMAIN ret.by_entity :
                            ret.by_entity[e].gain_pct =
                                expected(ret.by_entity[e].value, ret.by_entity[e].cost)
                    /\ \A c \in DOMAIN ret.by_asset_class :
                            ret.by_asset_class[c].gain_pct =
                                expected(ret.by_asset_class[c].value,
                                         ret.by_asset_class[c].cost)
                    /\ ret.summary.total_gain_pct =
                            expected(ret.summary.total_value_cad,
                                     ret.summary.total_cost_basis_cad)

-----------------------------------------------------------------------------
(* Order of transactions of equal date                                      *)

\* The position a replay of txs in the given order stores.
Replayed(inv, txs) ==
    LET end == ReplayFrom(LedgerStart(inv), txs)
    IN  <<end.quantity, end.cost_basis, CostPerUnit(end.cost_basis, end.quantity)>>

AscendingDates(txs) ==
    \A k \in 1..(Len(txs) - 1) : txs[k].date <= txs[k + 1].date

\* C24: the position stored by a replay is the same for every order of the
\* investment's transactions that is ascending in date, i.e. it does not
\* depend on the order in which transactions of equal date are processed.
C24_SameDateOrderIrrelevant ==
    (last.op \in {"add_transaction", "update_investment_position"}
        /\ last.id \in InvIds) =>
        LET txs == TransactionsOf(transactions, last.id)
        IN  \A p \in Permutations(1..Len(txs)) :
                AscendingDates(Permuted(txs, p)) =>
                    Position(investments[last.id]) =
                        Replayed(investments[last.id], Permuted(txs, p))

-----------------------------------------------------------------------------
(* Transaction import: CSVImporter.import_transactions                      *)

\* A normalized row of the file: the investment it names (0: no investment
\* matches), the type, the date, the quantity, the price and the amount.
ImportRows ==
    {[investment |-> inv, type |-> type, date |-> 1, quantity |-> quantity,
      price |-> R(12), amount |-> amount] :
        inv \in {0} \cup InvIds, type \in {"Buy", "Sell"},
        quantity \in {R(50)}, amount \in {Zero, R(1000)}}

\* The amount stored for a row: quantity * price if no amount is given.
RowAmount(row) ==
    IF row.amount = Zero /\ row.quantity # Zero /\ row.price # Zero
    THEN RMul(row.quantity, row.price)
    ELSE row.amount

\* The loop over the rows: a row whose investment is not found is skipped.
RECURSIVE ImportedTransactions(_, _)
ImportedTransactions(table, rows) ==
    IF rows = <<>> THEN table
    ELSE LET row == Head(rows)
             tx == [investment_id |-> row.investment, transaction_type |-> row.type,
                    date |-> row.date, quantity |-> row.quantity,
                    total_amount |-> RowAmount(row)]
         IN  ImportedTransactions(IF row.investment \in InvIds
                                  THEN Append(table, tx) ELSE table,
                                  Tail(rows))

\* The loop over session.query(Investment).all(): every investment, in id
\* order, is replayed.
RECURSIVE PositionsUpdated(_, _, _)
PositionsUpdated(table, rows, n) ==
    IF n = 0 THEN table
    ELSE PositionUpdated(PositionsUpdated(table, rows, n - 1), rows, n)

ImportTransactions(rows) ==
    /\ Len(transactions) + Len(rows) <= MaxTx
    /\ transactions' = ImportedTransactions(transactions, rows)
    /\ investments' = PositionsUpdated(investments, transactions',
                                       Cardinality(DOMAIN investments))
    /\ last' = [op |-> "import_transactions",
                imported |-> Len(transactions') - Len(transactions)]
    /\ UNCHANGED <<now, holdings, risks, fx_cache, commitments, valuations, session_state>>

NextImportTransactions ==
    \E n \in 0..MaxTx : \E rows \in [1..n -> ImportRows] : ImportTransactions(rows)

SpecImportTransactions == InitLedger /\ [][NextImportTransactions]_vars

\* C25: an import of transactions leaves quantity, cost_basis and
\* cost_per_unit of every investment without transactions as they were.
C25_ImportKeepsDirectPositions ==
    [][last'.op = "import_transactions" =>
          \A id \in InvIds :
              Ledger(transactions', id) = <<>> =>
                  Position(investments'[id]) = Position(investments[id])]_vars

-----------------------------------------------------------------------------
(* Risk Register page: the script run with its session state                *)

\* session_state without the key.
Without(state, key) == [k \in DOMAIN state \ {key} |-> state[k]]

\* The auto-save loop over edited_rows, a sequence of <<row_idx, changes>> in
\* the order of the editor state: the risk id and the unedited fields are
\* read from row row_idx of the stored snapshot.
RECURSIVE AutoSaveEditedRows(_, _, _)
AutoSaveEditedRows(table, original, edited_rows) ==
    IF edited_rows = <<>>
    THEN [risks |-> table, changes_made |-> 0, raised |-> FALSE]
    ELSE LET row_idx == edited_rows[1][1]
             changes == edited_rows[1][2]
         IN  IF row_idx >= Len(original)
             THEN AutoSaveEditedRows(table, original, Tail(edited_rows))
             ELSE LET row_orig == original[row_idx + 1]
                      risk_id == row_orig.id
                      merged == Merged(TableRow(row_orig), changes)
                      saved == UpdateRiskRow(table, risk_id, merged.Category,
                                             merged.Entity,
                                             ParseScale(merged.Likelihood),
                                             ParseScale(merged.Impact),
                                             merged.Status, merged.NextReview)
                  IN  IF saved.error
                      THEN [risks |-> saved.risks, changes_made |-> 0, raised |-> TRUE]
                      ELSE LET rest == AutoSaveEditedRows(saved.risks, original,
                                                          Tail(edited_rows))
                           IN  [risks |-> rest.risks,
                                changes_made |-> rest.changes_made + 1,
                                raised |-> rest.raised]

\* One run of the risk list tab on the session state the widgets left: the
\* filters are applied, the snapshot is stored if there is none or the data is
\* stale, and on the transition from edit mode to view mode the pending edits
\* are saved and the script is run again.  The editor keeps its state only
\* while it is drawn.
RECURSIVE RiskListRun(_, _)
RiskListRun(table, state) ==
    LET filtered_risks ==
            FilteredRisks(GetAllRisks(table),
                          DictGet(state, "risk_filter_entity", "All"),
                          DictGet(state, "risk_filter_category", "All"),
                          DictGet(state, "risk_filter_status", "All (Active)"),
                          DictGet(state, "risk_filter_severity", "All"))
    IN  IF filtered_risks = <<>>
        THEN [risks |-> table, session_state |-> Without(state, "risk_editor"),
              df |-> <<>>]
        ELSE LET stored ==
                    IF "risk_df_original" \notin DOMAIN state
                        \/ DictGet(state, "_risk_data_stale", TRUE)
                    THEN ("risk_df_original" :> filtered_risks)
                            @@ ("_risk_data_stale" :> FALSE) @@ state
                    ELSE state
                 prev_edit_mode == DictGet(stored, "_prev_edit_mode", FALSE)
                 edit_mode == DictGet(stored, "risk_edit_mode", FALSE)
                 toggled == ("_prev_edit_mode" :> edit_mode) @@ stored
             IN  IF prev_edit_mode /\ ~edit_mode
                 THEN LET edited_rows == DictGet(toggled, "risk_editor", <<>>)
                          saved == AutoSaveEditedRows(table, toggled["risk_df_original"],
                                                      edited_rows)
                      IN  IF saved.raised
                          THEN [risks |-> saved.risks,
                                session_state |-> Without(toggled, "risk_editor"),
                                df |-> filtered_risks]
                          ELSE IF saved.changes_made > 0
                          THEN RiskListRun(saved.risks,
                                           ("_risk_data_stale" :> TRUE)
                                                @@ Without(toggled, "risk_editor"))
                          ELSE [risks |-> table,
                                session_state |-> Without(toggled, "risk_editor"),
                                df |-> filtered_risks]
                 ELSE [risks |-> table,
                       session_state |-> IF edit_mode THEN toggled
                                         ELSE Without(toggled, "risk_editor"),
                       df |-> filtered_risks]

\* The script runs on the widget values in widgets.
RunRiskList(widgets) ==
    LET run == RiskListRun(risks, widgets @@ session_state)
    IN  /\ risks' = run.risks
        /\ session_state' = run.session_state
        /\ last' = [op |-> "risk_list_run",
                    displayed |-> [k \in 1..Len(run.df) |-> run.df[k].id]]
        /\ UNCHANGED <<investments, transactions, now, holdings, fx_cache, commitments,
                       valuations>>

\* The user opens the page: the first run of a session, on the default
\* values of the widgets.
OpenRiskList ==
    /\ session_state = <<>>
    /\ RunRiskList(<<>>)

\* The user picks a filter in view mode.
SelectFilters(filter_category, filter_status) ==
    /\ last.op = "risk_list_run"
    /\ ~DictGet(session_state, "risk_edit_mode", FALSE)
    /\ RunRiskList(("risk_filter_category" :> filter_category)
                        @@ ("risk_filter_status" :> filter_status))

\* The user flips the "Edit Mode" toggle.
ToggleEditMode ==
    /\ last.op = "risk_list_run"
    /\ last.displayed # <<>>
    /\ RunRiskList("risk_edit_mode" :> ~DictGet(session_state, "risk_edit_mode", FALSE))

\* The user edits cells of one row of the editor, which had no edits yet.
EditRow(row_idx, changes) ==
    /\ DictGet(session_state, "risk_edit_mode", FALSE)
    /\ last.op = "risk_list_run"
    /\ row_idx < Len(last.displayed)
    /\ LET edited_rows == DictGet(session_state, "risk_editor", <<>>)
       IN  /\ \A k \in DOMAIN edited_rows : edited_rows[k][1] # row_idx
           /\ RunRiskList("risk_editor" :> Append(edited_rows, <<row_idx, changes>>))

\* Two risks as add_risk stores them: a financial risk of HoldCo scored 16
\* and a second risk that is scored above or below it.
InitRiskPage ==
    /\ investments = <<>>
    /\ transactions = <<>>
    /\ now = 1
    /\ holdings = <<>>
    /\ \E category2 \in RISK_CATEGORIES, likelihood2 \in {2, 5} :
            risks = (1 :> StoredRisk("Financial", 1, 4, 4, "Identified", 0))
                 @@ (2 :> StoredRisk(category2, 2, likelihood2, 4, "Identified", 0))
    /\ fx_cache = None
    /\ commitments = <<>>
    /\ valuations = <<>>
    /\ session_state = <<>>
    /\ last = NoCall

RowEdits ==
    [{"Status"} -> {"Closed"}] \cup [{"Likelihood"} -> {TextCell(LIKELIHOOD_LABELS[1])}]

NextRiskPage ==
    \/ OpenRiskList
    \/ \E filter_category \in {"All", "Legal"},
          filter_status \in {"All (Active)", "All (Including Closed)"} :
            SelectFilters(filter_category, filter_status)
    \/ ToggleEditMode
    \/ \E row_idx \in {0, 1}, changes \in RowEdits : EditRow(row_idx, changes)

SpecRiskPage == InitRiskPage /\ [][NextRiskPage]_vars

\* The row update_risk stores for the risk row with the edited cells changes.
EditedRisk(row, changes) ==
    LET merged == Merged(TableRow(row), changes)
    IN  [category |-> merged.Category, entity_id |-> merged.Entity,
         status |-> merged.Status,
         likelihood |-> ParseScale(merged.Likelihood),
         impact |-> ParseScale(merged.Impact),
         risk_score |-> ParseScale(merged.Likelihood) * ParseScale(merged.Impact),
         next_review_date |-> merged.NextReview]

\* C26: on the transition from edit mode to view mode every pending edit is
\* written to the risk that was displayed in the edited row, its unedited
\* fields keep that risk's values, and no other risk changes.
C26_EditSavedToDisplayedRisk ==
    [][(/\ DictGet(session_state, "risk_edit_mode", FALSE)
        /\ ~DictGet(session_state', "risk_edit_mode", FALSE)
        /\ last'.op = "risk_list_run") =>
            LET edited_rows == DictGet(session_state, "risk_editor", <<>>)
                edited_ids == {last.displayed[edited_rows[k][1] + 1] :
                                    k \in DOMAIN edited_rows}
            IN  /\ \A k \in DOMAIN edited_rows :
                        LET id == last.displayed[edited_rows[k][1] + 1]
                        IN  risks'[id] = EditedRisk(risks[id], edited_rows[k][2])
                /\ \A id \in DOMAIN risks \ edited_ids : risks'[id] = risks[id]]_vars

-----------------------------------------------------------------------------
(* The second average-cost routine: calculate_cost_basis_adjustment         *)

calculate_cost_basis_adjustment(current_cost_basis, current_quantity, transaction_type, transaction_quantity, transaction_price) ==
    LET result(new_cost_basis, new_quantity) ==
            [cost_basis |-> new_cost_basis,
             cost_per_unit |-> IF RLt(Zero, new_quantity)
                               THEN RDiv(new_cost_basis, new_quantity) ELSE Zero,
             quantity |-> new_quantity]
    IN  IF transaction_type \in {"Buy", "Capital Call"}
        THEN result(RAdd(current_cost_basis,
                         RMul(transaction_quantity, transaction_price)),
                    RAdd(current_quantity, transaction_quantity))
        ELSE IF transaction_type \in {"Sell", "Capital Return"}
        THEN IF RLe(current_quantity, Zero)
             THEN [cost_basis |-> Zero, cost_per_unit |-> Zero, quantity |-> Zero]
             ELSE LET avg_cost == RDiv(current_cost_basis, current_quantity)
                      new_quantity == RSub(current_quantity, transaction_quantity)
                  IN  result(RMul(new_quantity, avg_cost), new_quantity)
        ELSE result(current_cost_basis, current_quantity)

\* calculate_cost_basis_adjustment applied transaction by transaction; the
\* price of a transaction is its total_amount / quantity.
RECURSIVE AdjustedFrom(_, _)
AdjustedFrom(acc, txs) ==
    IF txs = <<>> THEN acc
    ELSE AdjustedFrom(
            calculate_cost_basis_adjustment(acc.cost_basis, acc.quantity,
                                            Head(txs).transaction_type,
                                            Head(txs).quantity,
                                            RDiv(Head(txs).total_amount, Head(txs).quantity)),
            Tail(txs))

CalculateCostBasisAdjustment(investment_id) ==
    /\ last' = [op |-> "calculate_cost_basis_adjustment", id |-> investment_id,
                ret |-> AdjustedFrom([cost_basis |-> Zero, cost_per_unit |-> Zero,
                                      quantity |-> Zero],
                                     TransactionsOf(transactions, investment_id))]
    /\ UNCHANGED <<investments, transactions, now, holdings, risks, fx_cache, commitments,
                   valuations, session_state>>

TxPrices == {R(10), R(12)}

NextAdjustment ==
    \/ \E id \in InvIds, type \in {"Buy", "Sell"}, date \in Dates,
          quantity \in TxQuantities, price \in TxPrices :
            AddTransaction(id, type, date, quantity, RMul(quantity, price))
    \/ \E id \in InvIds : CalculateCostBasisAdjustment(id)

SpecAdjustment == InitLedger /\ [][NextAdjustment]_vars

\* C27: for a ledger of Buy and Sell transactions with total_amount =
\* quantity * price, calculate_cost_basis_adjustment applied transaction by
\* transaction gives the quantity, cost_basis and cost_per_unit that the
\* ledger replay stores.
C27_AdjustmentAgreesWithReplay ==
    (last.op = "calculate_cost_basis_adjustment"
        /\ Ledger(transactions, last.id) # <<>>) =>
        <<last.ret.quantity, last.ret.cost_basis, last.ret.cost_per_unit>>
            = Position(investments[last.id])

-----------------------------------------------------------------------------
(* Manual valuations: add_valuation                                         *)

MaxValuations == 2

ValuationValues == {R(150), R(200), R(300)}

\* add_valuation: the tables afterwards and whether ValueError was raised.
ValuationAdded(table, rows, investment_id, date, value) ==
    IF investment_id \notin DOMAIN table
    THEN [investments |-> table, valuations |-> rows, raised |-> TRUE]
    ELSE LET investment == table[investment_id]
             value_per_unit == IF RLt(Zero, investment.quantity)
                               THEN RDiv(value, investment.quantity) ELSE value
             valuation == [investment_id |-> investment_id, date |-> date,
                           value |-> value, value_per_unit |-> value_per_unit]
         IN  [investments |->
                [table EXCEPT ![investment_id] =
                    [investment EXCEPT !.last_nav = value,
                                       !.last_nav_date = date,
                                       !.current_value = value,
                                       !.current_price = value_per_unit]],
              valuations |-> Append(rows, valuation),
              raised |-> FALSE]

AddValuation(investment_id, date, value) ==
    /\ Len(valuations) < MaxValuations
    /\ LET added == ValuationAdded(investments, valuations, investment_id, date, value)
       IN  /\ investments' = added.investments
           /\ valuations' = added.valuations
           /\ last' = [op |-> "add_valuation", id |-> investment_id,
                       raised |-> added.raised]
    /\ UNCHANGED <<transactions, now, holdings, risks, fx_cache, commitments,
                   session_state>>

NextValuation ==
    \E id \in InvIds \cup {3}, date \in Dates, value \in ValuationValues :
        AddValuation(id, date, value)

SpecValuation == InitLedger /\ [][NextValuation]_vars

\* The valuations recorded for an investment.
ValuationsOf(rows, investment_id) ==
    SelectSeq(rows, LAMBDA v : v.investment_id = investment_id)

\* C28: after add_valuation the investment's last_nav, last_nav_date and
\* current_value are those of a recorded valuation of the greatest date, and
\* add_valuation for an unknown investment raises and records nothing.
C28_LatestValuationIsLastNav ==
    [][last'.op = "add_valuation" =>
          IF last'.raised
          THEN /\ last'.id \notin DOMAIN investments
               /\ valuations' = valuations
               /\ investments' = investments
          ELSE LET recorded == ValuationsOf(valuations', last'.id)
                   investment == investments'[last'.id]
               IN  \E k \in DOMAIN recorded :
                     /\ \A j \in DOMAIN recorded : recorded[j].date <= recorded[k].date
                     /\ investment.last_nav_date = recorded[k].date
                     /\ investment.last_nav = recorded[k].value
                     /\ investment.current_value = recorded[k].value]_vars

-----------------------------------------------------------------------------
(* Stock quotes: MarketDataProvider.get_stock_price                         *)

\* A symbol is the sequence of its parts between the dots; the exchange ""
\* is the default None.
StockSymbols == {<<"RY">>, <<"RY", "TO">>}
Exchanges == {"", "TSX", "TSXV", "NYSE"}

\* _get_yahoo_symbol, on a symbol in upper case.
get_yahoo_symbol(symbol, exchange) ==
    IF Len(symbol) > 1 THEN symbol
    ELSE IF exchange # ""
    THEN IF exchange = "TSX" THEN symbol \o <<"TO">>
         ELSE IF exchange = "TSXV" THEN symbol \o <<"V">>
         ELSE symbol
    ELSE symbol

\* What Yahoo Finance gives for a ticker: a price, no price at all or an
\* exception.
TickerPrice(price) == [kind |-> "price", price |-> price]
TickerOutcomes == {TickerPrice(R(80)), TickerPrice(R(100)), NoQuote, FetchRaises}

\* The cache key of a stock: f"stock_{symbol}".
StockKey(symbol) == <<"stock", symbol>>

\* get_stock_price: the value returned, whether the ticker was fetched and
\* the cache left behind.
get_stock_price(cache, symbol, exchange, clock, ticker) ==
    LET cache_key == StockKey(symbol)
    IN  IF IsCacheValid(cache, cache_key, clock)
        THEN [ret |-> cache[cache_key][1], fetched |-> FALSE, cache |-> cache]
        ELSE IF ticker.kind = "price"
        THEN LET result == [kind |-> "quote", symbol |-> symbol,
                            yahoo_symbol |-> get_yahoo_symbol(symbol, exchange),
                            price |-> ticker.price, timestamp |-> clock]
             IN  [ret |-> result, fetched |-> TRUE,
                  cache |-> (cache_key :> <<result, clock>>) @@ cache]
        ELSE [ret |-> NoQuote, fetched |-> TRUE, cache |-> cache]

GetStockPrice(symbol, exchange, ticker) ==
    /\ LET result == get_stock_price(fx_cache, symbol, exchange, now, ticker)
       IN  /\ fx_cache' = result.cache
           /\ last' = [op |-> "get_stock_price", symbol |-> symbol,
                       exchange |-> exchange, ret |-> result.ret,
                       fetched |-> result.fetched]
    /\ UNCHANGED <<investments, transactions, now, holdings, risks, commitments,
                   valuations, session_state>>

NextStock ==
    \/ \E symbol \in StockSymbols, exchange \in Exchanges, ticker \in TickerOutcomes :
            GetStockPrice(symbol, exchange, ticker)
    \/ Tick

SpecStock == InitFx /\ [][NextStock]_vars

\* C29: a quote returned by get_stock_price is a quote of the listing asked
\* for, the symbol on the given exchange, fetched less than cache_timeout
\* seconds ago; and a failed fetch is not cached: the call that follows it
\* fetches again.
C29_QuoteIsOfRequestedListing ==
    [][last'.op = "get_stock_price" /\ now' = now =>
          /\ last'.ret.kind = "quote" =>
                /\ last'.ret.symbol = last'.symbol
                /\ last'.ret.yahoo_symbol =
                        get_yahoo_symbol(last'.symbol, last'.exchange)
                /\ now - last'.ret.timestamp < cache_timeout
          /\ last'.ret.kind = "none" => fx_cache' = fx_cache
          /\ (last.op = "get_stock_price" /\ last.ret.kind = "none"
                /\ last.symbol = last'.symbol) => last'.fetched]_vars

-----------------------------------------------------------------------------
(* Properties of the buckets of the portfolio overview                      *)

\* The sum of one field over the buckets of a by_entity or by_asset_class
\* dictionary.
RECURSIVE BucketSum(_, _, _)
BucketSum(buckets, keys, field) ==
    IF keys = {} THEN Zero
    ELSE LET key == CHOOSE k \in keys : TRUE
         IN  RAdd(buckets[key][field], BucketSum(buckets, keys \ {key}, field))

\* The number of places at which id is listed in the buckets.
Listings(buckets, id) ==
    Cardinality(UNION {{<<key, k>> : k \in {j \in DOMAIN buckets[key].investments :
                                                buckets[key].investments[j] = id}} :
                       key \in DOMAIN buckets})

\* C30: a snapshot folds in the active positions only; each of them is listed
\* in exactly one by_entity bucket and one by_asset_class bucket; the values
\* and the costs of the buckets of each grouping sum to the totals of the
\* summary; the bucket weights of each grouping sum to 100 when
\* total_value_cad > 0; and the call leaves the stored positions unchanged.
C30_BucketsPartitionActivePositions ==
    [][last'.op = "get_portfolio_overview" =>
          LET ret == last'.ret
              active == {id \in DOMAIN investments : investments[id].is_active}
              groupings == <<ret.by_entity, ret.by_asset_class>>
              value_cad(id) ==
                    RMul(investments[id].current_value,
                         IF investments[id].currency = "USD"
                         THEN ret.summary.usd_cad_rate ELSE R(1))
          IN  /\ investments' = investments
              /\ {ret.holdings[k].id : k \in DOMAIN ret.holdings} = active
              /\ Len(ret.holdings) = Cardinality(active)
              /\ ret.summary.investment_count = Cardinality(active)
              /\ ret.summary.total_value_cad =
                    RSum([k \in DOMAIN ret.holdings |-> value_cad(ret.holdings[k].id)])
              /\ \A g \in 1..2 :
                    LET buckets == groupings[g]
                    IN  /\ \A id \in DOMAIN investments :
                                Listings(buckets, id) = IF id \in active THEN 1 ELSE 0
                        /\ BucketSum(buckets, DOMAIN buckets, "value")
                                = ret.summary.total_value_cad
                        /\ BucketSum(buckets, DOMAIN buckets, "cost")
                                = ret.summary.total_cost_basis_cad
                        /\ RLt(Zero, ret.summary.total_value_cad) =>
                                BucketSum(buckets, DOMAIN buckets, "weight") = R(100)
              /\ \A id \in active :
                    /\ id \in {ret.by_entity[investments[id].entity].investments[k] :
                                k \in DOMAIN ret.by_entity[investments[id].entity].investments}
                    /\ id \in {ret.by_asset_class[investments[id].asset_class].investments[k] :
                                k \in DOMAIN
                                    ret.by_asset_class[investments[id].asset_class].investments}
      ]_vars

\* A snapshot of two active positions, of different entities and asset
\* classes, one of them in USD, and one exited position with a value; the
\* bucket weights are not whole numbers.
C30_Witness ==
    /\ last.op = "get_portfolio_overview"
    /\ investments[1].is_active /\ ~investments[2].is_active /\ investments[3].is_active
    /\ investments[2].current_value # Zero
    /\ investments[3].currency = "USD"
    /\ DOMAIN last.ret.by_entity = {"HoldCo", "Personal"}
    /\ last.ret.by_entity["HoldCo"].investments = <<1>>
    /\ last.ret.by_entity["Personal"].investments = <<3>>
    /\ last.ret.by_entity["HoldCo"].weight[2] # 1
    /\ RLt(Zero, last.ret.summary.total_value_cad)

=============================================================================
